---------------------------- MODULE Spec2Model ----------------------------
(***************************************************************************)
(* Schema resolution of OpenApi2Java: the dependency closure of a root     *)
(* schema, the mapping of a schema node to a Java type, and the            *)
(* inheritance derived from allOf.  Schema nodes are the dictionaries the  *)
(* program reads from components.schemas.                                  *)
(***************************************************************************)
EXTENDS Integers, Sequences, FiniteSets, TLC

(***************************************************************************)
(* Schema nodes.  A node is a dictionary; keys is the set of keys present  *)
(* ('allOf' in schema is "allOf" \in schema.keys), the other fields hold   *)
(* the values of the keys that are present.  properties is an insertion-   *)
(* ordered dictionary: a sequence of entries [k, v] with distinct k.       *)
(* items holds zero or one node.  ref is the pointer split on '/'.         *)
(***************************************************************************)
EmptyNode ==
  [keys |-> {}, ref |-> <<>>, type |-> "", format |-> "",
   properties |-> <<>>, allOf |-> <<>>, oneOf |-> <<>>, anyOf |-> <<>>,
   items |-> <<>>, required |-> <<>>]

Has(node, key) == key \in node.keys

\* '#/components/schemas/<name>'
SchemaRef(name) == <<"#", "components", "schemas", name>>

Ref(name) == [EmptyNode EXCEPT !.keys = {"$ref"}, !.ref = SchemaRef(name)]
Prim(t) == [EmptyNode EXCEPT !.keys = {"type"}, !.type = t]
PrimFmt(t, f) ==
  [EmptyNode EXCEPT !.keys = {"type", "format"}, !.type = t, !.format = f]
ArrayOf(item) ==
  [EmptyNode EXCEPT !.keys = {"type", "items"}, !.type = "array",
                    !.items = <<item>>]
Object(props) ==
  [EmptyNode EXCEPT !.keys = {"type", "properties"}, !.type = "object",
                    !.properties = props]
Props(props) ==
  [EmptyNode EXCEPT !.keys = {"properties"}, !.properties = props]
AllOf(list) == [EmptyNode EXCEPT !.keys = {"allOf"}, !.allOf = list]
OneOf(list) == [EmptyNode EXCEPT !.keys = {"oneOf"}, !.oneOf = list]
AnyOf(list) == [EmptyNode EXCEPT !.keys = {"anyOf"}, !.anyOf = list]
P(name, node) == [k |-> name, v |-> node]

\* A node carrying the keys of both a and b (the keys of a and b are disjoint).
Both(a, b) ==
  [keys |-> a.keys \cup b.keys,
   ref |-> IF Has(a, "$ref") THEN a.ref ELSE b.ref,
   type |-> IF Has(a, "type") THEN a.type ELSE b.type,
   format |-> IF Has(a, "format") THEN a.format ELSE b.format,
   properties |-> IF Has(a, "properties") THEN a.properties ELSE b.properties,
   allOf |-> IF Has(a, "allOf") THEN a.allOf ELSE b.allOf,
   oneOf |-> IF Has(a, "oneOf") THEN a.oneOf ELSE b.oneOf,
   anyOf |-> IF Has(a, "anyOf") THEN a.anyOf ELSE b.anyOf,
   items |-> IF Has(a, "items") THEN a.items ELSE b.items,
   required |-> IF Has(a, "required") THEN a.required ELSE b.required]

\* {'required': [...]}: the list of the names of the mandatory properties
Required(names) ==
  [EmptyNode EXCEPT !.keys = {"required"}, !.required = names]

(***************************************************************************)
(* Dictionary and list helpers of the host language.                       *)
(***************************************************************************)
\* ref.split('/')[-1]
RefName(node) == node.ref[Len(node.ref)]

\* schema.get('type')
GetType(node) == IF Has(node, "type") THEN node.type ELSE ""

\* schema.get('items', {})
GetItems(node) == IF Has(node, "items") THEN node.items[1] ELSE EmptyNode

Keys(d) == {d[i].k : i \in 1..Len(d)}

Lookup(d, key) == d[CHOOSE i \in 1..Len(d) : d[i].k = key].v

\* d[key] = value: an existing key keeps its position.
Put(d, e) ==
  IF e.k \in Keys(d)
  THEN [i \in 1..Len(d) |-> IF d[i].k = e.k THEN e ELSE d[i]]
  ELSE Append(d, e)

\* d.update(other)
RECURSIVE Update(_, _)
Update(d, other) ==
  IF other = <<>> THEN d ELSE Update(Put(d, Head(other)), Tail(other))

\* {k: v for k, v in d.items() if k not in drop}
RECURSIVE Without(_, _)
Without(d, drop) ==
  IF d = <<>> THEN <<>>
  ELSE IF Head(d).k \in drop THEN Without(Tail(d), drop)
       ELSE <<Head(d)>> \o Without(Tail(d), drop)


\* [f(x) for x in list] concatenated
RECURSIVE FlatMap(_, _)
FlatMap(f(_), list) ==
  IF list = <<>> THEN <<>> ELSE f(Head(list)) \o FlatMap(f, Tail(list))

\* the name of item's $ref, when item has one
OwnRef(item) == IF Has(item, "$ref") THEN <<RefName(item)>> ELSE <<>>

(***************************************************************************)
(* The documents.  components.schemas maps each name of SchemaNames to a   *)
(* schema node; Ghost is a name no document defines (a dangling $ref).     *)
(***************************************************************************)
SchemaNames == {"Pet", "Dog", "Item"}
Ghost == "Ghost"
RootNames == SchemaNames \cup {Ghost}

\* The shapes of a named schema that refers to name t.
ShapesTo(t) ==
  { Object(<<P("children", Ref(t))>>),
    Object(<<P("children", ArrayOf(Ref(t)))>>),
    Object(<<P("payload", OneOf(<<Ref(t), Ref("Item")>>))>>),
    Object(<<P("payload", AnyOf(<<Ref(t)>>))>>),
    Object(<<P("owner", Object(<<P("pet", Ref(t))>>))>>),
    Object(<<P("owner", Props(<<P("pet", Ref(t))>>))>>),
    Object(<<P("children", [EmptyNode EXCEPT !.keys = {"items"},
                                             !.items = <<Ref(t)>>])>>),
    Object(<<P("owner", AllOf(<<Ref(t), Props(<<P("pet", Ref("Item"))>>)>>))>>),
    ArrayOf(Ref(t)),
    AllOf(<<Ref(t), Object(<<P("breed", Prim("string"))>>)>>),
    AllOf(<<Object(<<P("breed", Prim("string"))>>), Ref(t)>>),
    AllOf(<<Ref(t), Object(<<P("name", Prim("integer")),
                             P("breed", Ref("Item"))>>)>>),
    Both(Props(<<P("children", Ref(t))>>),
         AllOf(<<Props(<<P("children", Prim("string"))>>)>>)) }

\* The shapes that refer to no schema.
LeafShapes ==
  { Object(<<P("name", Prim("string"))>>),
    ArrayOf(Prim("string")) }

PetShapes == LeafShapes \cup UNION {ShapesTo(t) : t \in {"Dog", Ghost}}
DogShapes == LeafShapes \cup UNION {ShapesTo(t) : t \in {"Pet", "Dog", "Item"}}
ItemShapes ==
  { Object(<<P("name", Prim("string")), P("tag", Prim("string"))>>),
    ArrayOf(Ref("Pet")),
    AllOf(<<Ref("Dog"), Props(<<P("tag", Prim("string"))>>)>>) }

Documents ==
  { [n \in SchemaNames |->
       CASE n = "Pet" -> p [] n = "Dog" -> d [] OTHER -> i] :
    p \in PetShapes, d \in DogShapes, i \in ItemShapes }

(***************************************************************************)
(* get_all_schema_dependencies: the names it calls itself on, in order.    *)
(***************************************************************************)
\* Mutant: the skip of array definitions left out.
IsArrayWrapper_Missing(schema) == FALSE

\* A schema that is just an array definition.
IsArrayWrapper(schema) ==
  GetType(schema) = "array" /\ ~Has(schema, "properties")
    /\ ~Has(schema, "allOf")

\* properties.update(item['properties']) for each element of a list
RECURSIVE MergeItemProperties(_, _)
MergeItemProperties(properties, list) ==
  IF list = <<>> THEN properties
  ELSE MergeItemProperties(
         IF Has(Head(list), "properties")
         THEN Update(properties, Head(list).properties) ELSE properties,
         Tail(list))

\* The dictionary "properties" the walk builds: the schema's own, then allOf's.
WalkedProperties(schema) ==
  LET own == IF Has(schema, "properties") THEN schema.properties ELSE <<>>
  IN IF Has(schema, "allOf") THEN MergeItemProperties(own, schema.allOf)
     ELSE own

\* The $ref of each property of an inline element.
SubPropertyRefs(item) ==
  IF Has(item, "properties")
  THEN FlatMap(LAMBDA e : OwnRef(e.v), item.properties) ELSE <<>>

PropAllOfRefs(item) == OwnRef(item) \o SubPropertyRefs(item)

InlinePropRefs(e) ==
  OwnRef(e.v) \o (IF Has(e.v, "allOf") THEN FlatMap(OwnRef, e.v.allOf)
                  ELSE <<>>)

\* Mutant: the variants of a oneOf are not followed.
PropertyRefs_NoOneOf(e) ==
  LET prop_schema == e.v
  IN OwnRef(prop_schema)
     \o (IF Has(prop_schema, "allOf")
         THEN FlatMap(PropAllOfRefs, prop_schema.allOf) ELSE <<>>)
     \o (IF GetType(prop_schema) = "array" /\ Has(prop_schema, "items")
         THEN OwnRef(prop_schema.items[1]) ELSE <<>>)
     \o (IF GetType(prop_schema) = "object" /\ Has(prop_schema, "properties")
         THEN FlatMap(InlinePropRefs, prop_schema.properties) ELSE <<>>)

\* The calls made for one property, in order.
PropertyRefs(e) ==
  LET prop_schema == e.v
  IN OwnRef(prop_schema)
     \o (IF Has(prop_schema, "allOf")
         THEN FlatMap(PropAllOfRefs, prop_schema.allOf) ELSE <<>>)
     \o (IF Has(prop_schema, "oneOf")
         THEN FlatMap(OwnRef, prop_schema.oneOf) ELSE <<>>)
     \o (IF GetType(prop_schema) = "array" /\ Has(prop_schema, "items")
         THEN OwnRef(prop_schema.items[1]) ELSE <<>>)
     \o (IF GetType(prop_schema) = "object" /\ Has(prop_schema, "properties")
         THEN FlatMap(InlinePropRefs, prop_schema.properties) ELSE <<>>)

\* The calls made for a schema that is not an array wrapper, in order.
SchemaCalls(schema) ==
  (IF Has(schema, "allOf") THEN FlatMap(OwnRef, schema.allOf) ELSE <<>>)
  \o FlatMap(PropertyRefs, WalkedProperties(schema))

\* The call made for an array wrapper.
WrapperCalls(schema) ==
  IF Has(schema, "items") THEN OwnRef(schema.items[1]) ELSE <<>>


(***************************************************************************)
(* Names.  A name is a string; its characters are read one at a time.      *)
(***************************************************************************)
UpperCase == "ABCDEFGHIJKLMNOPQRSTUVWXYZ"
LowerCase == "abcdefghijklmnopqrstuvwxyz"
Digits == "0123456789"

Chr(s, i) == SubSeq(s, i, i)
IndexIn(c, alphabet) ==
  IF \E i \in 1..Len(alphabet) : Chr(alphabet, i) = c
  THEN CHOOSE i \in 1..Len(alphabet) : Chr(alphabet, i) = c ELSE 0
IsUpper(c) == IndexIn(c, UpperCase) > 0
IsLower(c) == IndexIn(c, LowerCase) > 0
IsAlnum(c) == IsUpper(c) \/ IsLower(c) \/ IndexIn(c, Digits) > 0
UpperChr(c) == IF IsLower(c) THEN Chr(UpperCase, IndexIn(c, LowerCase)) ELSE c
LowerChr(c) == IF IsUpper(c) THEN Chr(LowerCase, IndexIn(c, UpperCase)) ELSE c

\* str.lower()
RECURSIVE LowerStr(_)
LowerStr(s) ==
  IF Len(s) = 0 THEN "" ELSE LowerChr(Chr(s, 1)) \o LowerStr(SubSeq(s, 2, Len(s)))

\* str.capitalize()
Capitalize(word) ==
  IF Len(word) = 0 THEN ""
  ELSE UpperChr(Chr(word, 1)) \o LowerStr(SubSeq(word, 2, Len(word)))

\* re.match(r'^[A-Z][a-zA-Z0-9]*$', name)
IsPascalCase(name) ==
  /\ Len(name) > 0 /\ IsUpper(Chr(name, 1))
  /\ \A i \in 2..Len(name) : IsAlnum(Chr(name, i))

\* re.match(r'^[a-z][a-zA-Z0-9]*$', name)
IsCamelCase(name) ==
  /\ Len(name) > 0 /\ IsLower(Chr(name, 1))
  /\ \A i \in 2..Len(name) : IsAlnum(Chr(name, i))

\* re.split(r'[_\s-]+', re.sub(r'[^a-zA-Z0-9_]', '_', name)): every character
\* that is no letter and no digit separates; parts may be empty at the ends.
RECURSIVE SplitFrom(_, _, _, _)
SplitFrom(name, i, parts, word) ==
  IF i > Len(name) THEN Append(parts, word)
  ELSE IF IsAlnum(Chr(name, i))
       THEN SplitFrom(name, i + 1, parts, word \o Chr(name, i))
       ELSE IF i > 1 /\ ~IsAlnum(Chr(name, i - 1))
            THEN SplitFrom(name, i + 1, parts, word)
            ELSE SplitFrom(name, i + 1, Append(parts, word), "")

SplitName(name) == SplitFrom(name, 1, <<>>, "")

\* ''.join(word.capitalize() for word in parts if word)
RECURSIVE JoinCapitalized(_)
JoinCapitalized(parts) ==
  IF parts = <<>> THEN ""
  ELSE Capitalize(Head(parts)) \o JoinCapitalized(Tail(parts))

\* Mutant: a camelCase name is split and capitalized like any other.
to_java_class_name_NoCamelCase(name) ==
  IF IsPascalCase(name) THEN name ELSE JoinCapitalized(SplitName(name))

to_java_class_name(name) ==
  IF IsPascalCase(name) THEN name
  ELSE IF IsCamelCase(name) THEN UpperChr(Chr(name, 1)) \o SubSeq(name, 2, Len(name))
  ELSE JoinCapitalized(SplitName(name))

\* parts[0].lower() + ''.join(word.capitalize() for word in parts[1:] if word)
to_java_field_name(name) ==
  IF IsCamelCase(name) THEN name
  ELSE LowerStr(Head(SplitName(name))) \o JoinCapitalized(Tail(SplitName(name)))

(***************************************************************************)
(* get_java_type_from_openapi: the Java type of a schema node.  field_name *)
(* is "" when the caller passes none.                                      *)
(***************************************************************************)
\* Mutant: oneOf is looked at before allOf.
Keyword_OneOfFirst(schema) ==
  IF Has(schema, "$ref") THEN "$ref"
  ELSE IF Has(schema, "oneOf") THEN "oneOf"
  ELSE IF Has(schema, "allOf") THEN "allOf"
  ELSE "type"

\* The keyword that decides: the order of the if statements.
Keyword(schema) ==
  IF Has(schema, "$ref") THEN "$ref"
  ELSE IF Has(schema, "allOf") THEN "allOf"
  ELSE IF Has(schema, "oneOf") THEN "oneOf"
  ELSE "type"

\* Mutant: a mixed list is an inline class also when no field name is given,
\* named after the empty name.
InlineInheritance_NoFieldName(list, field_name) ==
  /\ \E i \in 1..Len(list) : Has(list[i], "properties")
  /\ \E i \in 1..Len(list) : Has(list[i], "$ref")

\* has_inline_props and has_ref and field_name
InlineInheritance(list, field_name) ==
  /\ \E i \in 1..Len(list) : Has(list[i], "properties")
  /\ \E i \in 1..Len(list) : Has(list[i], "$ref")
  /\ field_name # ""

\* Mutant: a referenced array definition is not expanded.
ExpandsToList_Never(ref_schema) == FALSE

\* The referenced schema is just an array definition.
ExpandsToList(ref_schema) ==
  GetType(ref_schema) = "array" /\ ~Has(ref_schema, "properties")
    /\ ~Has(ref_schema, "allOf")

\* The element of an allOf list whose $ref gives the type, if any.
AllOfRefItem(list) ==
  IF list # <<>> /\ Has(list[1], "$ref") THEN <<list[1]>>
  ELSE IF \E i \in 1..Len(list) : Has(list[i], "$ref")
       THEN <<list[CHOOSE i \in 1..Len(list) :
                     /\ Has(list[i], "$ref")
                     /\ \A j \in 1..(i - 1) : ~Has(list[j], "$ref")]>>
       ELSE <<>>

\* The type of a node decided by 'type'.
TypeOfPrimitive(schema) ==
  LET schema_type == IF Has(schema, "type") THEN schema.type ELSE "object"
      format_type == IF Has(schema, "format") THEN schema.format ELSE ""
  IN CASE schema_type = "string" ->
            (IF format_type = "date-time" THEN "LocalDateTime"
             ELSE IF format_type = "date" THEN "LocalDate" ELSE "String")
       [] schema_type = "integer" -> "Long"
       [] schema_type = "number" -> "Double"
       [] schema_type = "boolean" -> "Boolean"
       [] OTHER -> "Object"

\* The interpreter's limit on the depth of calls, as the model has it.
RecursionLimit == 8

\* Mutant: the name is not added.
AddVisited_Forgets(seen, ref_name) == seen

\* visited.add(ref_name)
AddVisited(seen, ref_name) == seen \cup {ref_name}

RECURSIVE get_java_type_from_openapi(_, _, _, _)
get_java_type_from_openapi(schema, doc, seen, field_name) ==
  IF schema.keys = {} THEN "Object"
  ELSE CASE Keyword(schema) = "$ref" ->
         (LET ref_name == RefName(schema)
          IN IF ref_name \in seen THEN to_java_class_name(ref_name)
             ELSE IF ref_name \in DOMAIN doc
             THEN IF ExpandsToList(doc[ref_name])
                  THEN "List<" \o get_java_type_from_openapi(
                                    GetItems(doc[ref_name]), doc,
                                    AddVisited(seen, ref_name), "") \o ">"
                  ELSE to_java_class_name(ref_name)
             ELSE "Object")
       [] Keyword(schema) = "allOf" ->
         (IF InlineInheritance(schema.allOf, field_name)
          THEN to_java_class_name(field_name)
          ELSE IF AllOfRefItem(schema.allOf) # <<>>
          THEN get_java_type_from_openapi(AllOfRefItem(schema.allOf)[1], doc,
                                          seen, field_name)
          ELSE "Object")
       [] Keyword(schema) = "oneOf" ->
         (IF schema.oneOf # <<>> /\ Has(schema.oneOf[1], "$ref")
          THEN get_java_type_from_openapi(schema.oneOf[1], doc, seen, "")
          ELSE "Object")
       [] OTHER ->
         (IF GetType(schema) = "array"
          THEN "List<" \o get_java_type_from_openapi(GetItems(schema), doc,
                                                     seen, "") \o ">"
          ELSE IF (Has(schema, "type") => schema.type = "object")
                  /\ Has(schema, "properties") /\ field_name # ""
          THEN to_java_class_name(field_name)
          ELSE TypeOfPrimitive(schema))

\* The visited set as a call of get_java_type_from_openapi leaves it: every
\* visited.add of the call and of the calls it makes.
RECURSIVE VisitedAfter(_, _, _, _)
VisitedAfter(schema, doc, seen, field_name) ==
  IF schema.keys = {} THEN seen
  ELSE CASE Keyword(schema) = "$ref" ->
         (LET ref_name == RefName(schema)
          IN IF ref_name \in seen THEN seen
             ELSE IF ref_name \in DOMAIN doc /\ ExpandsToList(doc[ref_name])
             THEN VisitedAfter(GetItems(doc[ref_name]), doc,
                               AddVisited(seen, ref_name), "")
             ELSE AddVisited(seen, ref_name))
       [] Keyword(schema) = "allOf" ->
         (IF ~InlineInheritance(schema.allOf, field_name)
             /\ AllOfRefItem(schema.allOf) # <<>>
          THEN VisitedAfter(AllOfRefItem(schema.allOf)[1], doc, seen, field_name)
          ELSE seen)
       [] Keyword(schema) = "oneOf" ->
         (IF schema.oneOf # <<>> /\ Has(schema.oneOf[1], "$ref")
          THEN VisitedAfter(schema.oneOf[1], doc, seen, "")
          ELSE seen)
       [] OTHER ->
         (IF GetType(schema) = "array"
          THEN VisitedAfter(GetItems(schema), doc, seen, "")
          ELSE seen)

\* The depth of the deepest call that a call of get_java_type_from_openapi at
\* depth `depth` leads to; a depth over RecursionLimit is RecursionError raised.
RECURSIVE ResolveCalls(_, _, _, _, _)
ResolveCalls(schema, doc, seen, field_name, depth) ==
  IF depth > RecursionLimit \/ schema.keys = {} THEN depth
  ELSE CASE Keyword(schema) = "$ref" ->
         (LET ref_name == RefName(schema)
          IN IF /\ ref_name \notin seen /\ ref_name \in DOMAIN doc
                /\ ExpandsToList(doc[ref_name])
             THEN ResolveCalls(GetItems(doc[ref_name]), doc,
                               AddVisited(seen, ref_name), "", depth + 1)
             ELSE depth)
       [] Keyword(schema) = "allOf" ->
         (IF ~InlineInheritance(schema.allOf, field_name)
             /\ AllOfRefItem(schema.allOf) # <<>>
          THEN ResolveCalls(AllOfRefItem(schema.allOf)[1], doc, seen,
                            field_name, depth + 1)
          ELSE depth)
       [] Keyword(schema) = "oneOf" ->
         (IF schema.oneOf # <<>> /\ Has(schema.oneOf[1], "$ref")
          THEN ResolveCalls(schema.oneOf[1], doc, seen, "", depth + 1)
          ELSE depth)
       [] OTHER ->
         (IF GetType(schema) = "array"
          THEN ResolveCalls(GetItems(schema), doc, seen, "", depth + 1)
          ELSE depth)

\* Mutant: the set an earlier call left is used again.
NewVisited_Left(left) == left

\* if visited is None: visited = set(); no caller passes a set of its own.
NewVisited(left) == {}

(***************************************************************************)
(* resolve_ref of the client-interface generator.  The document has        *)
(* components.schemas and no other section, and every pointer has three    *)
(* segments after '#'.                                                     *)
(***************************************************************************)
\* Mutant: a missing key leaves the pointer as it is.
MissingTarget_Unresolved(ref) == [EmptyNode EXCEPT !.keys = {"$ref"}, !.ref = ref]

\* result.get(part, {}), the key missing
MissingTarget(ref) == EmptyNode

resolve_ref(ref, doc) ==
  LET parts == SelectSeq(ref, LAMBDA part : part # "#")
  IN IF /\ Len(parts) = 3 /\ parts[1] = "components" /\ parts[2] = "schemas"
        /\ parts[3] \in DOMAIN doc
     THEN doc[parts[3]]
     ELSE MissingTarget(ref)

(***************************************************************************)
(* get_java_type_from_schema: the Java type the client-interface generator *)
(* gives a schema node.                                                    *)
(***************************************************************************)
\* The first property of `properties` that has a oneOf, as a list of 0 or 1.
RECURSIVE FirstOneOfProperty(_)
FirstOneOfProperty(properties) ==
  IF properties = <<>> THEN <<>>
  ELSE IF Has(Head(properties).v, "oneOf") THEN <<Head(properties)>>
  ELSE FirstOneOfProperty(Tail(properties))

\* The same over the inline elements of an allOf list, in order.
RECURSIVE FirstOneOfPropertyOfItems(_)
FirstOneOfPropertyOfItems(list) ==
  IF list = <<>> THEN <<>>
  ELSE IF Has(Head(list), "properties")
          /\ FirstOneOfProperty(Head(list).properties) # <<>>
  THEN FirstOneOfProperty(Head(list).properties)
  ELSE FirstOneOfPropertyOfItems(Tail(list))

\* The oneOf property by which a schema is generic: a direct property first,
\* then the properties of the elements of its allOf.
OneOfPropertyOf(schema) ==
  IF Has(schema, "properties") /\ FirstOneOfProperty(schema.properties) # <<>>
  THEN FirstOneOfProperty(schema.properties)
  ELSE IF Has(schema, "allOf") THEN FirstOneOfPropertyOfItems(schema.allOf)
  ELSE <<>>

has_oneof_property(schema) == OneOfPropertyOf(schema) # <<>>

get_oneof_base_class_name(schema) ==
  IF OneOfPropertyOf(schema) = <<>> THEN ""
  ELSE to_java_class_name(OneOfPropertyOf(schema)[1].k)

\* type_mapping.get(schema_type, 'Object')
type_mapping(schema_type) ==
  CASE schema_type = "string" -> "String"
    [] schema_type = "integer" -> "Integer"
    [] schema_type = "number" -> "Double"
    [] schema_type = "boolean" -> "Boolean"
    [] OTHER -> "Object"

\* Every $ref of the documents has at least two segments: ref_path[-2] exists.
RECURSIVE get_java_type_from_schema(_, _)
get_java_type_from_schema(schema, doc) ==
  LET ref_path == schema.ref
      class_name == to_java_class_name(RefName(schema))
      actual_schema == doc[RefName(schema)]
      base_class == get_oneof_base_class_name(actual_schema)
  IN IF Has(schema, "$ref") /\ ref_path[Len(ref_path) - 1] = "schemas"
     THEN IF RefName(schema) \in DOMAIN doc /\ has_oneof_property(actual_schema)
             /\ base_class # ""
          THEN class_name \o "<? extends " \o base_class \o ">"
          ELSE class_name
     ELSE IF Has(schema, "$ref") /\ ref_path[Len(ref_path) - 1] = "parameters"
     THEN "String"
     ELSE IF GetType(schema) = "array"
     THEN IF Has(schema, "items")
          THEN "List<" \o get_java_type_from_schema(schema.items[1], doc) \o ">"
          ELSE "List<Object>"
     ELSE type_mapping(IF Has(schema, "type") THEN schema.type ELSE "object")

(***************************************************************************)
(* Inheritance: the base class of a schema and the properties a class      *)
(* declares itself.  No name is "" (None).                                 *)
(***************************************************************************)
\* components.schemas in the order of the document.
DocOrder(doc) ==
  IF "Dog" \in DOMAIN doc THEN <<"Pet", "Dog", "Item">>
  ELSE IF "PetList" \in DOMAIN doc THEN <<"Pet", "pet_list", "PetList">>
  ELSE <<"Pet", "pet_list", "Item">>

\* first = schema['allOf'][0], when the list is not empty and first has a $ref
FirstIsRef(list) ==
  IF list # <<>> /\ Has(list[1], "$ref") THEN <<list[1]>> ELSE <<>>

get_base_class(schema_name, doc) ==
  IF schema_name \notin DOMAIN doc THEN ""
  ELSE IF Has(doc[schema_name], "allOf")
          /\ FirstIsRef(doc[schema_name].allOf) # <<>>
  THEN RefName(FirstIsRef(doc[schema_name].allOf)[1])
  ELSE ""

\* The result of a call: the dictionary returned, or RecursionError raised.
Raised == [raised |-> TRUE, properties |-> <<>>]
Returned(properties) == [raised |-> FALSE, properties |-> properties]

RECURSIVE get_schema_properties(_, _, _, _)
RECURSIVE AllOfProperties(_, _, _, _, _)
\* for item in schema['allOf']
AllOfProperties(properties, list, doc, include_inherited, depth) ==
  IF list = <<>> THEN Returned(properties)
  ELSE IF Has(Head(list), "$ref") /\ ~include_inherited
  THEN AllOfProperties(properties, Tail(list), doc, include_inherited, depth)
  ELSE LET item == Head(list)
           inherited == IF Has(item, "$ref")
                        THEN get_schema_properties(RefName(item), doc, TRUE,
                                                   depth + 1)
                        ELSE Returned(<<>>)
           merged == Update(properties, inherited.properties)
       IN IF inherited.raised THEN Raised
          ELSE AllOfProperties(
                 IF Has(item, "properties") THEN Update(merged, item.properties)
                 ELSE merged,
                 Tail(list), doc, include_inherited, depth)

\* depth is the depth of the call.
get_schema_properties(schema_name, doc, include_inherited, depth) ==
  IF depth > RecursionLimit THEN Raised
  ELSE IF schema_name \notin DOMAIN doc THEN Returned(<<>>)
  ELSE LET schema == doc[schema_name]
           own == IF Has(schema, "properties") THEN schema.properties ELSE <<>>
       IN IF Has(schema, "allOf")
          THEN AllOfProperties(own, schema.allOf, doc, include_inherited, depth)
          ELSE Returned(own)

\* The name of the first property of `properties` whose oneOf lists schema_name.
RECURSIVE OneOfPropertyListing(_, _)
OneOfPropertyListing(properties, schema_name) ==
  IF properties = <<>> THEN ""
  ELSE IF /\ Has(Head(properties).v, "oneOf")
          /\ \E i \in 1..Len(Head(properties).v.oneOf) :
               /\ Has(Head(properties).v.oneOf[i], "$ref")
               /\ RefName(Head(properties).v.oneOf[i]) = schema_name
       THEN Head(properties).k
       ELSE OneOfPropertyListing(Tail(properties), schema_name)

\* for parent_schema_name, parent_schema in schemas.items()
RECURSIVE FindOneOfFrom(_, _, _)
FindOneOfFrom(order, schema_name, doc) ==
  IF order = <<>> THEN ""
  ELSE LET props == get_schema_properties(Head(order), doc, FALSE, 1).properties
           prop_name == OneOfPropertyListing(props, schema_name)
       IN IF prop_name # "" THEN to_java_class_name(prop_name)
          ELSE FindOneOfFrom(Tail(order), schema_name, doc)

find_oneof_base_class(schema_name, doc) ==
  FindOneOfFrom(DocOrder(doc), schema_name, doc)

\* Mutant: only the properties the base class declares itself are taken off.
BaseProperties_OwnOnly(base_class, doc) ==
  get_schema_properties(base_class, doc, FALSE, 1)

\* base_props = get_schema_properties(base_class, schemas, True)
BaseProperties(base_class, doc) ==
  get_schema_properties(base_class, doc, TRUE, 1)

\* The schema is just an array definition: no class is generated.
SkippedAsArray(schema) ==
  GetType(schema) = "array" /\ ~Has(schema, "properties")
    /\ ~Has(schema, "allOf")

\* The first property the schema declares itself that has a oneOf, as a list
\* of 0 or 1: the field and the list of its oneOf.
has_oneof_field(schema_name, doc) ==
  FirstOneOfProperty(get_schema_properties(schema_name, doc, FALSE, 1).properties)

\* generic_param, as a list of 0 or 1
GenericParam(oneof_field) ==
  IF oneof_field # <<>> /\ oneof_field[1].v.oneOf # <<>>
  THEN <<"T" \o to_java_class_name(oneof_field[1].k) \o " extends "
           \o to_java_class_name(oneof_field[1].k)>>
  ELSE <<>>

\* for prop_name, prop_schema in own_props.items(): the type of each field
RECURSIVE FieldTypes(_, _, _)
FieldTypes(own_props, oneof_field, doc) ==
  IF own_props = <<>> THEN <<>>
  ELSE LET prop_name == Head(own_props).k
           java_type ==
             IF GenericParam(oneof_field) # <<>> /\ prop_name = oneof_field[1].k
             THEN "T" \o to_java_class_name(prop_name)
             ELSE get_java_type_from_openapi(Head(own_props).v, doc, {}, prop_name)
       IN <<[k |-> prop_name, type |-> java_type]>>
            \o FieldTypes(Tail(own_props), oneof_field, doc)

\* The class generated for a schema: its base, its generic parameter and the
\* types of its fields.
generate_java_class_from_schema(schema_name, doc) ==
  IF schema_name \notin DOMAIN doc \/ SkippedAsArray(doc[schema_name])
  THEN [generated |-> FALSE, raised |-> FALSE]
  ELSE LET base_class == get_base_class(schema_name, doc)
           allof_base == IF base_class # "" THEN to_java_class_name(base_class)
                         ELSE ""
           base_class_name == IF allof_base # "" THEN allof_base
                              ELSE find_oneof_base_class(schema_name, doc)
           all_props == get_schema_properties(schema_name, doc, TRUE, 1)
           base_props == IF base_class_name # ""
                         THEN BaseProperties(base_class, doc)
                         ELSE Returned(<<>>)
       IN IF all_props.raised \/ base_props.raised
          THEN [generated |-> FALSE, raised |-> TRUE]
          ELSE [generated |-> TRUE, raised |-> FALSE,
                class_name |-> to_java_class_name(schema_name),
                base_class |-> base_class,
                base_class_name |-> base_class_name,
                own_props |-> Without(all_props.properties,
                                      Keys(base_props.properties)),
                generic_param |-> GenericParam(has_oneof_field(schema_name, doc)),
                fields |-> FieldTypes(Without(all_props.properties,
                                              Keys(base_props.properties)),
                                      has_oneof_field(schema_name, doc), doc)]

\* for item in schema['allOf']: if 'required' in item: ... item['required']
RECURSIVE AllOfRequired(_)
AllOfRequired(items) ==
  IF items = <<>> THEN <<>>
  ELSE (IF Has(items[1], "required") THEN items[1].required ELSE <<>>)
       \o AllOfRequired(Tail(items))

\* required_fields = schema.get('required', []): the list of the node itself
\* when the key is present, and then required_fields.extend(...) writes to it
RequiredAfterClass(schema) ==
  IF Has(schema, "required") /\ Has(schema, "allOf")
  THEN schema.required \o AllOfRequired(schema.allOf)
  ELSE schema.required

\* The document after generate_java_class_from_schema(schema_name, doc): the
\* call returns or raises before the required list is read when no class is
\* generated.
SchemasAfterClass(schema_name, doc) ==
  IF generate_java_class_from_schema(schema_name, doc).generated
  THEN [doc EXCEPT ![schema_name].required = RequiredAfterClass(doc[schema_name])]
  ELSE doc

(***************************************************************************)
(* The document-wide inheritance map of the class generator of             *)
(* generators/, and the parents by which the example payloads are grouped. *)
(***************************************************************************)
\* to_java_class_name of generators/: a file extension is removed first.
to_java_class_name_of_file(name) ==
  to_java_class_name(
    IF Len(name) >= 5 /\ SubSeq(name, Len(name) - 4, Len(name)) = ".json"
    THEN SubSeq(name, 1, Len(name) - 5) ELSE name)

\* ref_path.startswith('#/components/schemas/')
IsSchemaPointer(ref) ==
  Len(ref) >= 4 /\ ref[1] = "#" /\ ref[2] = "components" /\ ref[3] = "schemas"

\* for schema_name, schema_def in schemas.items()
RECURSIVE LoadInheritanceFrom(_, _, _)
LoadInheritanceFrom(order, doc, inheritance_map) ==
  IF order = <<>> THEN inheritance_map
  ELSE LET schema_def == doc[Head(order)]
           class_name == to_java_class_name_of_file(Head(order))
           first_is_ref == /\ Has(schema_def, "allOf")
                           /\ schema_def.allOf # <<>>
                           /\ Has(schema_def.allOf[1], "$ref")
                           /\ IsSchemaPointer(schema_def.allOf[1].ref)
       IN LoadInheritanceFrom(
            Tail(order), doc,
            IF first_is_ref
            THEN Put(inheritance_map,
                     P(class_name,
                       to_java_class_name_of_file(RefName(schema_def.allOf[1]))))
            ELSE inheritance_map)

load_openapi_inheritance(doc) == LoadInheritanceFrom(DocOrder(doc), doc, <<>>)

\* all_properties: the direct properties, then those of each allOf element
RECURSIVE CollectProperties(_, _)
CollectProperties(all_properties, list) ==
  IF list = <<>> THEN all_properties
  ELSE CollectProperties(
         IF Has(Head(list), "properties")
         THEN Update(all_properties, Head(list).properties)
         ELSE all_properties,
         Tail(list))

\* Mutant: only the first variant is recorded.
RECURSIVE OneOfTypes_FirstOnly(_)
OneOfTypes_FirstOnly(list) ==
  IF list = <<>> THEN <<>>
  ELSE IF Has(Head(list), "$ref") /\ IsSchemaPointer(Head(list).ref)
       THEN <<to_java_class_name_of_file(RefName(Head(list)))>>
       ELSE OneOfTypes_FirstOnly(Tail(list))

\* oneof_types: the class names of the schemas the oneOf refers to, in order
RECURSIVE OneOfTypes(_)
OneOfTypes(list) ==
  IF list = <<>> THEN <<>>
  ELSE (IF Has(Head(list), "$ref") /\ IsSchemaPointer(Head(list).ref)
        THEN <<to_java_class_name_of_file(RefName(Head(list)))>>
        ELSE <<>>) \o OneOfTypes(Tail(list))

\* Mutant: a base found before is overwritten.
AlreadyInherits_Never(inheritance_map, java_type) == FALSE

\* java_type in inheritance_map
AlreadyInherits(inheritance_map, java_type) == java_type \in Keys(inheritance_map)

\* for java_type in oneof_types: extend the base class unless a base is known
RECURSIVE ExtendAll(_, _, _)
ExtendAll(inheritance_map, oneof_types, base_class_name) ==
  IF oneof_types = <<>> THEN inheritance_map
  ELSE ExtendAll(
         IF AlreadyInherits(inheritance_map, Head(oneof_types))
         THEN inheritance_map
         ELSE Put(inheritance_map, P(Head(oneof_types), base_class_name)),
         Tail(oneof_types), base_class_name)

\* for field_name, field_def in all_properties.items()
RECURSIVE LoadOneOfOfFields(_, _, _)
LoadOneOfOfFields(fields, class_name, maps) ==
  IF fields = <<>> THEN maps
  ELSE LET field_name == Head(fields).k
           field_def == Head(fields).v
           oneof_types == IF Has(field_def, "oneOf")
                          THEN OneOfTypes(field_def.oneOf) ELSE <<>>
           base_class_name == to_java_class_name_of_file(field_name)
           of_class == IF class_name \in Keys(maps.oneof_fields_map)
                       THEN Lookup(maps.oneof_fields_map, class_name)
                       ELSE <<>>
       IN LoadOneOfOfFields(
            Tail(fields), class_name,
            IF oneof_types = <<>> THEN maps
            ELSE [oneof_fields_map |->
                    Put(maps.oneof_fields_map,
                        P(class_name,
                          Put(of_class,
                              P(field_name, [types |-> oneof_types,
                                             baseClass |-> base_class_name])))),
                  inheritance_map |->
                    ExtendAll(maps.inheritance_map, oneof_types,
                              base_class_name)])

\* for schema_name, schema_def in schemas.items()
RECURSIVE LoadOneOfFrom(_, _, _)
LoadOneOfFrom(order, doc, maps) ==
  IF order = <<>> THEN maps
  ELSE LET schema_def == doc[Head(order)]
           direct == IF Has(schema_def, "properties")
                     THEN schema_def.properties ELSE <<>>
           all_properties == IF Has(schema_def, "allOf")
                             THEN CollectProperties(direct, schema_def.allOf)
                             ELSE direct
       IN LoadOneOfFrom(
            Tail(order), doc,
            LoadOneOfOfFields(all_properties,
                              to_java_class_name_of_file(Head(order)), maps))

\* The two global maps after the call, given inheritance_map before it.
load_openapi_oneof_fields(doc, inheritance_map) ==
  LoadOneOfFrom(DocOrder(doc), doc,
                [oneof_fields_map |-> <<>>, inheritance_map |-> inheritance_map])

\* The parent the examples of a schema are filed under: the first $ref found
\* in its allOf.
ExampleParent(schema_def) ==
  IF Has(schema_def, "allOf")
     /\ \E i \in 1..Len(schema_def.allOf) : Has(schema_def.allOf[i], "$ref")
  THEN RefName(schema_def.allOf[
         CHOOSE i \in 1..Len(schema_def.allOf) :
           /\ Has(schema_def.allOf[i], "$ref")
           /\ \A j \in 1..(i - 1) : ~Has(schema_def.allOf[j], "$ref")])
  ELSE ""

\* inheritance_map of generate_all_schemas_folder
ExampleParents(doc) == [schema_name \in DOMAIN doc |-> ExampleParent(doc[schema_name])]

(***************************************************************************)
(* The state.  One walk of get_all_schema_dependencies is a stack of       *)
(* activations; an activation is the schema name it was called on and the  *)
(* calls it has still to make.  The bottom activation is the caller.       *)
(***************************************************************************)
VARIABLES
  schemas,   \* components.schemas of the loaded document
  pc,        \* "idle", "walk", "done" or "RecursionError"
  root,      \* the schema name the running or last walk was started on
  visited,   \* the set the walk threads through its calls
  stack,     \* the activations of the walk
  first,     \* the first walk completed, if any: its root, its result, and
             \* whether a walk of another root has completed since
  out        \* the last call of a function of the document: its arguments
             \* and its result

vars == <<schemas, pc, root, visited, stack, first, out>>
walk == <<pc, root, visited, stack, first>>
NoCall == [op |-> "none"]

\* Mutant: the set of the previous walk is used again (a shared default).
FreshVisited_Shared(old) == old

\* if visited is None: visited = set()
FreshVisited(old) == {}

\* schema_name in visited or schema_name not in schemas
EntryGuard(schema_name, seen, doc) ==
  schema_name \in seen \/ schema_name \notin DOMAIN doc

\* Mutant: the name is not added.
MarkVisited_Forgets(seen, schema_name) == seen

\* visited.add(schema_name)
MarkVisited(seen, schema_name) == seen \cup {schema_name}

Top == stack[Len(stack)]
NextCall == Head(Top.todo)
\* the stack once the top activation has made its next call
Popped == [stack EXCEPT ![Len(stack)].todo = Tail(@)]

Init ==
  /\ schemas \in Documents
  /\ pc = "idle"
  /\ root = Ghost
  /\ visited = {}
  /\ stack = <<>>
  /\ first = <<>>
  /\ out = NoCall

\* deps = get_all_schema_dependencies(request_schema, schemas)
StartClosure(r) ==
  /\ pc \in {"idle", "done"}
  /\ pc' = "walk"
  /\ root' = r
  /\ visited' = FreshVisited(visited)
  /\ stack' = <<[name |-> "", todo |-> <<r>>]>>
  /\ UNCHANGED <<out, schemas, first>>

\* A call that returns at the entry guard.
CallGuarded ==
  /\ pc = "walk" /\ Top.todo # <<>>
  /\ EntryGuard(NextCall, visited, schemas)
  /\ stack' = Popped
  /\ UNCHANGED <<out, schemas, pc, root, visited, first>>

\* A call on an array wrapper: the wrapper is not added, its items are walked.
CallWrapper ==
  /\ pc = "walk" /\ Top.todo # <<>>
  /\ ~EntryGuard(NextCall, visited, schemas)
  /\ IsArrayWrapper(schemas[NextCall])
  /\ Len(stack) < RecursionLimit
  /\ stack' = Append(Popped, [name |-> NextCall,
                              todo |-> WrapperCalls(schemas[NextCall])])
  /\ UNCHANGED <<out, schemas, pc, root, visited, first>>

\* A call on any other schema: it is added, then its references are walked.
CallSchema ==
  /\ pc = "walk" /\ Top.todo # <<>>
  /\ ~EntryGuard(NextCall, visited, schemas)
  /\ ~IsArrayWrapper(schemas[NextCall])
  /\ Len(stack) < RecursionLimit
  /\ visited' = MarkVisited(visited, NextCall)
  /\ stack' = Append(Popped, [name |-> NextCall,
                              todo |-> SchemaCalls(schemas[NextCall])])
  /\ UNCHANGED <<out, schemas, pc, root, first>>

\* A call deeper than the interpreter allows raises RecursionError.
CallTooDeep ==
  /\ pc = "walk" /\ Top.todo # <<>>
  /\ ~EntryGuard(NextCall, visited, schemas)
  /\ Len(stack) >= RecursionLimit
  /\ pc' = "RecursionError"
  /\ UNCHANGED <<out, schemas, root, visited, stack, first>>

\* return visited, to an activation of the walk
Return ==
  /\ pc = "walk" /\ Len(stack) > 1 /\ Top.todo = <<>>
  /\ stack' = SubSeq(stack, 1, Len(stack) - 1)
  /\ UNCHANGED <<out, schemas, pc, root, visited, first>>

\* return visited, to the caller
Finish ==
  /\ pc = "walk" /\ Len(stack) = 1 /\ Top.todo = <<>>
  /\ pc' = "done"
  /\ first' = IF first = <<>>
              THEN <<[root |-> root, deps |-> visited, between |-> FALSE]>>
              ELSE IF first[1].root # root
              THEN <<[first[1] EXCEPT !.between = TRUE]>>
              ELSE first
  /\ UNCHANGED <<out, schemas, root, visited, stack>>

Next ==
  \/ \E r \in RootNames : StartClosure(r)
  \/ CallGuarded
  \/ CallWrapper
  \/ CallSchema
  \/ CallTooDeep
  \/ Return
  \/ Finish

Spec == Init /\ [][Next]_vars

(***************************************************************************)
(* Type resolution: get_java_type_from_openapi applied to a schema node of *)
(* a document, as the class generator applies it to each property.         *)
(***************************************************************************)
TypeNames == {"Pet", "pet_list", "Item"}

TypeDocuments ==
  { [n \in TypeNames |->
       CASE n = "Pet" -> p [] n = "pet_list" -> l [] OTHER -> i] :
    p \in { Object(<<P("name", Prim("string"))>>),
            ArrayOf(Ref("pet_list")),
            AllOf(<<Ref("Item"), Props(<<P("name", Prim("string"))>>)>>),
            Both(ArrayOf(Ref("Item")), Props(<<P("name", Prim("string"))>>)) },
    l \in { ArrayOf(Ref("Pet")), ArrayOf(Ref("pet_list")), ArrayOf(Ref("Item")),
            ArrayOf(Ref(Ghost)), ArrayOf(Prim("string")), Prim("array"),
            ArrayOf(ArrayOf(Ref("Pet"))),
            Object(<<P("pets", ArrayOf(Ref("Pet")))>>) },
    i \in { Object(<<P("tag", Prim("string"))>>),
            ArrayOf(Ref("pet_list")),
            ArrayOf(Ref("Pet")) } }

FieldNames == {"", "owner", "pet_owner"}

SomeProps == <<P("tag", Prim("string"))>>

RefNodes == {Ref(n) : n \in TypeNames \cup {Ghost}}

AllOfNodes ==
  {AllOf(list) :
     list \in UNION { { <<Ref(a), Props(SomeProps)>>, <<Props(SomeProps), Ref(a)>>,
                        <<Ref(a)>>, <<Ref(a), Ref("Item")>>,
                        <<Props(SomeProps), Ref(a), Ref("Item")>>,
                        <<Prim("object"), Ref(a)>>,
                        <<Both(Ref(a), Props(SomeProps))>> } :
                      a \in {"Pet", "pet_list", Ghost} }
              \cup {<<>>, <<Props(SomeProps)>>}}

OneOfNodes ==
  {OneOf(list) :
     list \in { <<Ref("Pet"), Ref("Item")>>, <<Ref("pet_list"), Ref("Pet")>>,
                <<Prim("string"), Ref("Pet")>>, <<>> }}

TypeKeywordNodes ==
  { EmptyNode, Prim("string"), PrimFmt("string", "date-time"),
    PrimFmt("string", "date"), PrimFmt("string", "uuid"), Prim("integer"),
    Prim("number"), Prim("boolean"), Prim("object"), Prim("array"),
    Prim("null"), Object(SomeProps), Props(SomeProps),
    ArrayOf(Prim("integer")), ArrayOf(Ref("Pet")), ArrayOf(Ref("pet_list")),
    ArrayOf(Object(SomeProps)),
    ArrayOf(AllOf(<<Ref("Pet"), Props(SomeProps)>>)) }

\* Nodes that carry more than one of $ref, allOf, oneOf and type.
LowerKeywordNodes ==
  { Prim("string"), Prim("integer"), Object(SomeProps), ArrayOf(Ref("Pet")) }

MixedNodes ==
  {Both(r, x) : r \in {Ref("Pet"), Ref("pet_list")},
                x \in AllOfNodes \cup OneOfNodes \cup LowerKeywordNodes}
  \cup {Both(a, x) : a \in AllOfNodes, x \in OneOfNodes \cup LowerKeywordNodes}
  \cup {Both(o, x) : o \in OneOfNodes, x \in LowerKeywordNodes}
  \cup {Both(Both(Ref("Item"), a), Both(OneOf(<<Ref("Pet"), Ref("Item")>>),
                                        Prim("string"))) : a \in AllOfNodes}

TypeNodes ==
  RefNodes \cup AllOfNodes \cup OneOfNodes \cup TypeKeywordNodes \cup MixedNodes

InitTypes ==
  /\ schemas \in TypeDocuments
  /\ pc = "types"
  /\ root = Ghost
  /\ visited = {}
  /\ stack = <<>>
  /\ first = <<>>
  /\ out = NoCall

\* java_type = get_java_type_from_openapi(prop_schema, schemas, field_name=prop_name)
ResolveType(schema, field_name) ==
  /\ out' = IF ResolveCalls(schema, schemas, {}, field_name, 1) > RecursionLimit
            THEN [op |-> "RecursionError", schema |-> schema,
                  field_name |-> field_name]
            ELSE [op |-> "type", schema |-> schema, field_name |-> field_name,
                  type |-> get_java_type_from_openapi(schema, schemas, {},
                                                      field_name),
                  visited |-> VisitedAfter(schema, schemas, {}, field_name)]
  /\ UNCHANGED <<schemas, walk>>

\* The same call once more, on the same node.
ResolveTypeAgain ==
  /\ out.op = "type"
  /\ out' = [op |-> "type_twice", schema |-> out.schema,
             field_name |-> out.field_name, type |-> out.type,
             again |-> get_java_type_from_openapi(out.schema, schemas,
                                                  NewVisited(out.visited),
                                                  out.field_name)]
  /\ UNCHANGED <<schemas, walk>>

\* return get_java_type_from_schema(schema, schemas, components)
ResolveClientType(schema) ==
  /\ out' = [op |-> "client_type", schema |-> schema,
             type |-> get_java_type_from_schema(schema, schemas)]
  /\ UNCHANGED <<schemas, walk>>

NextTypes ==
  \/ /\ pc = "types" /\ out = NoCall
     /\ \/ \E schema \in TypeNodes, field_name \in FieldNames :
               ResolveType(schema, field_name)
        \/ \E schema \in TypeNodes : ResolveClientType(schema)
  \/ pc = "types" /\ ResolveTypeAgain

SpecTypes == InitTypes /\ [][NextTypes]_vars


(***************************************************************************)
(* Documents with pointers to schemas they do not define: walked, their    *)
(* nodes typed, their pointers resolved.                                   *)
(***************************************************************************)
\* Nodes that lead to a schema, defined or not, directly or through a list.
PointerNodes ==
  UNION { {Ref(n), ArrayOf(Ref(n)), AllOf(<<Ref(n)>>),
           AllOf(<<Props(SomeProps), Ref(n)>>), OneOf(<<Ref(n), Ref("Item")>>)} :
          n \in RootNames }

Pointers ==
  {Ref(n).ref : n \in RootNames} \cup {<<"#", "components", "parameters", "limit">>}

\* return resolve_ref(param_or_ref['$ref'], openapi_spec)
ResolveRef(ref) ==
  /\ out' = [op |-> "ref", ref |-> ref, target |-> resolve_ref(ref, schemas)]
  /\ UNCHANGED <<schemas, walk>>

NextPointers ==
  \/ out = NoCall /\ Next
  \/ /\ pc = "idle" /\ out = NoCall
     /\ \E schema \in PointerNodes, field_name \in {"", "owner"} :
          ResolveType(schema, field_name)
  \/ /\ pc = "idle" /\ out = NoCall
     /\ \E ref \in Pointers : ResolveRef(ref)

SpecPointers == Init /\ [][NextPointers]_vars

(***************************************************************************)
(* Class generation and the derivation of parents, each applied once to a  *)
(* document.                                                               *)
(***************************************************************************)
InitClasses ==
  /\ schemas \in Documents
  /\ pc = "classes"
  /\ root = Ghost
  /\ visited = {}
  /\ stack = <<>>
  /\ first = <<>>
  /\ out = NoCall

\* java_code = generate_java_class_from_schema(schema_name, schemas, package)
GenerateClass(schema_name) ==
  /\ pc = "classes" /\ out = NoCall
  /\ out' = [op |-> "class", schema_name |-> schema_name,
             class |-> generate_java_class_from_schema(schema_name, schemas)]
  /\ schemas' = SchemasAfterClass(schema_name, schemas)
  /\ UNCHANGED walk

\* load_openapi_inheritance(openapi_file)
LoadInheritance ==
  /\ pc = "classes" /\ out = NoCall
  /\ out' = [op |-> "inheritance_map",
             inheritance_map |-> load_openapi_inheritance(schemas)]
  /\ UNCHANGED <<schemas, walk>>

\* generate_all_schemas_folder(openapi_file, output_folder), up to its map
GroupExamples ==
  /\ pc = "classes" /\ out = NoCall
  /\ out' = [op |-> "examples", inheritance_map |-> ExampleParents(schemas)]
  /\ UNCHANGED <<schemas, walk>>

NextClasses ==
  \/ \E schema_name \in RootNames : GenerateClass(schema_name)
  \/ LoadInheritance
  \/ GroupExamples

SpecClasses == InitClasses /\ [][NextClasses]_vars

(***************************************************************************)
(* Documents with oneOf properties: their classes generated, their         *)
(* polymorphism analysed.                                                  *)
(***************************************************************************)
Tagged == <<P("tag", Prim("string"))>>

PolyPetShapes ==
  { Object(<<P("payload", OneOf(<<Ref("pet_list"), Ref("Item")>>))>>),
    Object(<<P("payload", OneOf(<<Ref("Item"), Ref("pet_list")>>)),
             P("pet_owner", OneOf(<<Ref("pet_list")>>))>>),
    AllOf(<<Props(<<P("payload", OneOf(<<Ref("pet_list")>>))>>)>>),
    Both(Props(<<P("payload", OneOf(<<Ref("pet_list"), Ref("Item")>>))>>),
         AllOf(<<Props(<<P("payload", Prim("string"))>>)>>)),
    Object(<<P("payload", OneOf(<<Prim("string"), Ref("Item")>>))>>),
    Object(<<P("payload", OneOf(<<Prim("string")>>))>>),
    Object(<<P("name", Prim("string"))>>),
    AllOf(<<Ref("Item"), Props(<<P("payload", OneOf(<<Ref("pet_list")>>))>>)>>) }

PolyListShapes ==
  { Object(Tagged),
    AllOf(<<Ref("Item"), Props(Tagged)>>),
    AllOf(<<Props(Tagged), Ref("Item")>>),
    Object(<<P("payload", OneOf(<<Ref("Item")>>))>>),
    ArrayOf(Ref("Item")) }

PolyItemShapes ==
  { Object(<<P("name", Prim("string"))>>),
    Object(<<P("payload", OneOf(<<Ref("pet_list")>>))>>),
    Object(<<P("other", OneOf(<<Ref("pet_list"), Ref(Ghost)>>))>>) }

PolyDocuments ==
  { [n \in TypeNames |->
       CASE n = "Pet" -> p [] n = "pet_list" -> l [] OTHER -> i] :
    p \in PolyPetShapes, l \in PolyListShapes, i \in PolyItemShapes }

InitPoly ==
  /\ schemas \in PolyDocuments
  /\ pc = "classes"
  /\ root = Ghost
  /\ visited = {}
  /\ stack = <<>>
  /\ first = <<>>
  /\ out = NoCall

\* load_openapi_inheritance, then load_openapi_oneof_fields
LoadPolymorphism ==
  /\ pc = "classes" /\ out = NoCall
  /\ out' = [op |-> "polymorphism",
             maps |-> load_openapi_oneof_fields(
                        schemas, load_openapi_inheritance(schemas))]
  /\ UNCHANGED <<schemas, walk>>

NextPoly ==
  \/ \E schema_name \in TypeNames \cup {Ghost} : GenerateClass(schema_name)
  \/ LoadPolymorphism

SpecPoly == InitPoly /\ [][NextPoly]_vars

(***************************************************************************)
(* Documents with required lists: the closure, the type resolver and the   *)
(* class generator applied to one loaded document, any number of times and *)
(* in any order, as process_openapi_definition does for each schema.       *)
(***************************************************************************)
MaxRequired == 3

Named == <<P("name", Prim("string"))>>
Bred == <<P("breed", Prim("string"))>>

FramePetShapes ==
  { Props(Named),
    Both(Required(<<"name">>), Props(Named)) }

FrameDogShapes ==
  { AllOf(<<Ref("Pet"), Props(Bred)>>),
    AllOf(<<Ref("Pet"), Both(Required(<<"breed">>), Props(Bred))>>),
    Both(Required(<<"name">>), AllOf(<<Ref("Pet"), Props(Bred)>>)),
    Both(Required(<<"name">>),
         AllOf(<<Ref("Pet"), Both(Required(<<"breed">>), Props(Bred))>>)) }

FrameItemShapes ==
  { Object(<<P("owner", Ref("Dog"))>>),
    ArrayOf(Ref("Item")),
    Both(Both(Required(<<"tag">>), Props(<<P("owner", Ref("Pet"))>>)),
         AllOf(<<Both(Required(<<"tag">>), Props(Tagged))>>)) }

FrameDocuments ==
  { [n \in SchemaNames |->
       IF n = "Pet" THEN pet ELSE IF n = "Dog" THEN dog ELSE item] :
    pet \in FramePetShapes, dog \in FrameDogShapes, item \in FrameItemShapes }

FrameNodes == {Ref("Dog"), ArrayOf(Ref("Item")), AllOf(<<Ref("Pet")>>)}

InitFrame ==
  /\ schemas \in FrameDocuments
  /\ pc = "idle"
  /\ root = Ghost
  /\ visited = {}
  /\ stack = <<>>
  /\ first = <<>>
  /\ out = NoCall

\* generate_java_class_from_schema(schema_name, schemas, package), whatever
\* was called before it
RegenerateClass(schema_name) ==
  /\ \A n \in DOMAIN schemas :
       Len(SchemasAfterClass(schema_name, schemas)[n].required) <= MaxRequired
  /\ out' = [op |-> "class", schema_name |-> schema_name,
             class |-> generate_java_class_from_schema(schema_name, schemas)]
  /\ schemas' = SchemasAfterClass(schema_name, schemas)
  /\ UNCHANGED walk

NextFrame ==
  \/ Next
  \/ /\ pc \in {"idle", "done"}
     /\ \E schema_name \in RootNames : RegenerateClass(schema_name)
  \/ /\ pc \in {"idle", "done"}
     /\ \E schema \in FrameNodes, field_name \in {"", "owner"} :
          ResolveType(schema, field_name)

SpecFrame == InitFrame /\ [][NextFrame]_vars

(***************************************************************************)
(* The closure as the function it computes: the calls of one activation,   *)
(* in order, threading the visited set; depth is the number of activations *)
(* on the stack.                                                           *)
(***************************************************************************)
RECURSIVE WalkCalls(_, _, _, _)
WalkCalls(todo, doc, seen, depth) ==
  IF todo = <<>> THEN [raised |-> FALSE, visited |-> seen]
  ELSE IF EntryGuard(Head(todo), seen, doc)
  THEN WalkCalls(Tail(todo), doc, seen, depth)
  ELSE IF depth >= RecursionLimit THEN [raised |-> TRUE, visited |-> seen]
  ELSE LET schema == doc[Head(todo)]
           inner == IF IsArrayWrapper(schema)
                    THEN WalkCalls(WrapperCalls(schema), doc, seen, depth + 1)
                    ELSE WalkCalls(SchemaCalls(schema), doc,
                                   MarkVisited(seen, Head(todo)), depth + 1)
       IN IF inner.raised THEN inner
          ELSE WalkCalls(Tail(todo), doc, inner.visited, depth)

\* Mutant: the schema and the schemas it refers to itself, no further.
get_all_schema_dependencies_Direct(schema_name, doc) ==
  [raised |-> FALSE,
   visited |-> IF schema_name \in DOMAIN doc
               THEN ({schema_name}
                       \cup {SchemaCalls(doc[schema_name])[i] :
                               i \in 1..Len(SchemaCalls(doc[schema_name]))})
                      \cap DOMAIN doc
               ELSE {}]

\* get_all_schema_dependencies(schema_name, schemas), called on its own
get_all_schema_dependencies(schema_name, doc) ==
  WalkCalls(<<schema_name>>, doc, FreshVisited({}), 1)

(***************************************************************************)
(* Two closures of one document running as two tasks.  The variables pc,   *)
(* root, visited and stack are those of the task that runs; out holds      *)
(* those of the task that waits.  The document is the only state the two   *)
(* tasks have in common.                                                   *)
(***************************************************************************)
ParallelDocuments ==
  { doc \in Documents :
      /\ doc["Pet"] \in { Object(<<P("children", Ref("Dog"))>>),
                          Object(<<P("children", ArrayOf(Ref(Ghost)))>>) }
      /\ doc["Dog"] \in { Object(<<P("children", Ref("Pet"))>>),
                          ArrayOf(Ref("Item")),
                          ArrayOf(Ref("Dog")) }
      /\ doc["Item"] \in { ArrayOf(Ref("Pet")),
                           AllOf(<<Ref("Dog"),
                                   Props(<<P("tag", Prim("string"))>>)>>) } }

Waiting(task_pc, task_root, task_visited, task_stack) ==
  [op |-> "task", pc |-> task_pc, root |-> task_root,
   visited |-> task_visited, stack |-> task_stack]

InitParallel ==
  /\ schemas \in ParallelDocuments
  /\ pc = "idle"
  /\ root = Ghost
  /\ visited = {}
  /\ stack = <<>>
  /\ first = <<>>
  /\ out = Waiting("idle", Ghost, {}, <<>>)

\* Mutant: one set for both tasks (a shared default argument).
TaskVisited_Shared(own, other) == other

\* if visited is None: visited = set() -- every top-level call has a set of
\* its own, which the task that resumes finds as it left it
TaskVisited(own, other) == own

\* The scheduler lets the other task run.
Switch ==
  /\ out.op = "task"
  /\ pc' = out.pc
  /\ root' = out.root
  /\ visited' = TaskVisited(out.visited, visited)
  /\ stack' = out.stack
  /\ out' = Waiting(pc, root, visited, stack)
  /\ UNCHANGED <<schemas, first>>

NextParallel ==
  \/ Next
  \/ Switch

SpecParallel == InitParallel /\ [][NextParallel]_vars

(***************************************************************************)
(* generate_example_from_schema: the example payload of a schema node.     *)
(* An example is None, a value, a dictionary or a list; a call deeper than *)
(* the interpreter allows raises RecursionError.  The schema nodes of the  *)
(* documents below have no example, default or enum.                       *)
(***************************************************************************)
PropRef(schema_name, property_name) ==
  [EmptyNode EXCEPT !.keys = {"$ref"},
                    !.ref = <<"#", "components", "schemas", schema_name,
                              "properties", property_name>>]

ExampleRaised == [raised |-> TRUE, kind |-> "RecursionError"]
ExampleNone == [raised |-> FALSE, kind |-> "None"]
ExampleValue(v) == [raised |-> FALSE, kind |-> "value", value |-> v]
ExampleDict(entries) == [raised |-> FALSE, kind |-> "dict", entries |-> entries]
ExampleList(element) == [raised |-> FALSE, kind |-> "list", elements |-> <<element>>]

\* len(ref_path) > 3 and ref_path[-2] == 'properties'
IsPropertyPointer(ref) == Len(ref) > 3 /\ ref[Len(ref) - 1] = "properties"

\* schemas.get(schema_name, {}).get('properties', {}).get(property_name, {})
PointedProperty(ref, doc) ==
  LET schema_name == ref[Len(ref) - 2]
      property_name == ref[Len(ref)]
  IN IF /\ schema_name \in DOMAIN doc /\ Has(doc[schema_name], "properties")
        /\ property_name \in Keys(doc[schema_name].properties)
     THEN Lookup(doc[schema_name].properties, property_name)
     ELSE EmptyNode

\* if property_schema: return generate_example_from_schema(property_schema, ...)
FollowsPointer(ref, doc) ==
  IsPropertyPointer(ref) /\ PointedProperty(ref, doc).keys # {}

\* the example of a string, by its format
StringExample(fmt) ==
  IF fmt = "date-time" THEN "2025-01-01T00:00:00Z"
  ELSE IF fmt = "date" THEN "2025-01-01"
  ELSE IF fmt = "email" THEN "user@example.com"
  ELSE IF fmt = "uuid" THEN "123e4567-e89b-12d3-a456-426614174000"
  ELSE "example_string"

RECURSIVE generate_example_from_schema(_, _, _, _)
RECURSIVE MergedExample(_, _, _, _, _)
RECURSIVE PropertyExamples(_, _, _, _, _)

generate_example_from_schema(schema, doc, seen_refs, depth) ==
  IF depth > RecursionLimit THEN ExampleRaised
  ELSE IF schema.keys = {} THEN ExampleNone
  ELSE IF Has(schema, "$ref")
  THEN IF FollowsPointer(schema.ref, doc)
       THEN generate_example_from_schema(PointedProperty(schema.ref, doc), doc,
                                         seen_refs, depth + 1)
       ELSE IF RefName(schema) \in seen_refs
       THEN ExampleValue("# circular reference to " \o RefName(schema))
       ELSE generate_example_from_schema(
              IF RefName(schema) \in DOMAIN doc THEN doc[RefName(schema)]
              ELSE EmptyNode,
              doc, seen_refs \cup {RefName(schema)}, depth + 1)
  ELSE IF Has(schema, "allOf")
  THEN IF Len(schema.allOf) = 1
       THEN generate_example_from_schema(schema.allOf[1], doc, seen_refs, depth + 1)
       ELSE MergedExample(schema.allOf, doc, seen_refs, depth, <<>>)
  ELSE IF Has(schema, "oneOf") /\ schema.oneOf # <<>>
  THEN generate_example_from_schema(schema.oneOf[1], doc, seen_refs, depth + 1)
  ELSE IF Has(schema, "anyOf") /\ schema.anyOf # <<>>
  THEN generate_example_from_schema(schema.anyOf[1], doc, seen_refs, depth + 1)
  ELSE IF ~Has(schema, "type") \/ schema.type = "object"
  THEN PropertyExamples(IF Has(schema, "properties") THEN schema.properties
                        ELSE <<>>, doc, seen_refs, depth, <<>>)
  ELSE IF schema.type = "array"
  THEN LET element == generate_example_from_schema(GetItems(schema), doc,
                                                   seen_refs, depth + 1)
       IN IF element.raised THEN ExampleRaised ELSE ExampleList(element)
  ELSE IF schema.type = "string"
  THEN ExampleValue(StringExample(IF Has(schema, "format") THEN schema.format
                                  ELSE ""))
  ELSE IF schema.type = "integer" THEN ExampleValue("1")
  ELSE IF schema.type = "number" THEN ExampleValue("1.0")
  ELSE IF schema.type = "boolean" THEN ExampleValue("True")
  ELSE ExampleNone

\* for sub_schema in schema['allOf']: a dictionary is merged, any other
\* example that is not None is returned at once
MergedExample(list, doc, seen_refs, depth, merged_example) ==
  IF list = <<>> THEN ExampleDict(merged_example)
  ELSE LET sub_example == generate_example_from_schema(Head(list), doc,
                                                       seen_refs, depth + 1)
       IN IF sub_example.raised THEN ExampleRaised
          ELSE IF sub_example.kind = "dict"
          THEN MergedExample(Tail(list), doc, seen_refs, depth,
                             Update(merged_example, sub_example.entries))
          ELSE IF sub_example.kind # "None" THEN sub_example
          ELSE MergedExample(Tail(list), doc, seen_refs, depth, merged_example)

\* {prop_name: generate_example_from_schema(prop_schema, ...) for ...}
PropertyExamples(properties, doc, seen_refs, depth, examples) ==
  IF properties = <<>> THEN ExampleDict(examples)
  ELSE LET example == generate_example_from_schema(Head(properties).v, doc,
                                                   seen_refs, depth + 1)
       IN IF example.raised THEN ExampleRaised
          ELSE PropertyExamples(Tail(properties), doc, seen_refs, depth,
                                Put(examples, P(Head(properties).k, example)))

ExamplePetShapes ==
  { Object(<<P("owner", PropRef("Pet", "owner"))>>),
    Object(<<P("owner", PropRef("Dog", "owner"))>>),
    Object(<<P("children", ArrayOf(Ref("Pet")))>>),
    Object(<<P("children", Ref("Dog"))>>) }

ExampleDogShapes ==
  { Object(<<P("owner", PropRef("Pet", "owner"))>>),
    Object(<<P("owner", PrimFmt("string", "email"))>>),
    AllOf(<<Ref("Pet"), Props(Bred)>>),
    OneOf(<<Ref("Item"), Ref("Pet")>>) }

ExampleItemShapes ==
  { Object(<<P("tag", Prim("integer"))>>),
    Object(<<P("tag", PropRef("Dog", "owner")), P("name", Prim("string"))>>),
    Props(<<P("tag", PropRef("Item", "name")), P("name", Prim("boolean"))>>),
    AllOf(<<Ref("Dog")>>),
    AnyOf(<<Ref("Dog")>>) }

ExampleDocuments ==
  { [n \in SchemaNames |->
       IF n = "Pet" THEN pet ELSE IF n = "Dog" THEN dog ELSE item] :
    pet \in ExamplePetShapes, dog \in ExampleDogShapes,
    item \in ExampleItemShapes }

InitExamples ==
  /\ schemas \in ExampleDocuments
  /\ pc = "examples"
  /\ root = Ghost
  /\ visited = {}
  /\ stack = <<>>
  /\ first = <<>>
  /\ out = NoCall

\* example = generate_example_from_schema(schemas[schema_name], schemas)
GenerateExample(schema_name) ==
  /\ pc = "examples" /\ out = NoCall
  /\ out' = [op |-> "example", schema_name |-> schema_name,
             example |-> generate_example_from_schema(schemas[schema_name],
                                                      schemas, {}, 1)]
  /\ UNCHANGED <<schemas, walk>>

NextExamples == \E schema_name \in SchemaNames : GenerateExample(schema_name)

SpecExamples == InitExamples /\ [][NextExamples]_vars

(***************************************************************************)
(* process_endpoint: the classes written for the request body of an        *)
(* endpoint.  written lists the files in the order they are written, each  *)
(* named after its class; a later file of the same name replaces an        *)
(* earlier one.                                                            *)
(***************************************************************************)
\* sorted(deps): upper-case letters sort before lower-case ones
SortedNames(names) ==
  SelectSeq(<<"Dog", "Ghost", "Item", "Pet", "PetList", "pet_list">>,
            LAMBDA n : n \in names)

\* base_class_ref of a property's allOf: the last $ref of the list
RECURSIVE LastRef(_, _)
LastRef(list, base_class_ref) ==
  IF list = <<>> THEN base_class_ref
  ELSE LastRef(Tail(list), IF Has(Head(list), "$ref") THEN RefName(Head(list))
                           ELSE base_class_ref)

\* generate_java_class_from_inline_schema: the fields and the base
InlineClass(prop_name, inline_props, base_class, doc) ==
  [kind |-> "inline", schema_name |-> "",
   class_name |-> to_java_class_name(prop_name),
   base_class_name |-> base_class,
   fields |-> FieldTypes(inline_props, <<>>, doc)]

\* for prop_name, prop_schema in properties.items()
RECURSIVE InlineClassesOf(_, _)
InlineClassesOf(properties, doc) ==
  IF properties = <<>> THEN <<>>
  ELSE LET prop_name == Head(properties).k
           prop_schema == Head(properties).v
           inline ==
             IF GetType(prop_schema) = "object" /\ Has(prop_schema, "properties")
             THEN <<InlineClass(prop_name, prop_schema.properties, "", doc)>>
             ELSE IF /\ Has(prop_schema, "allOf")
                     /\ \E i \in 1..Len(prop_schema.allOf) :
                          Has(prop_schema.allOf[i], "properties")
                     /\ LastRef(prop_schema.allOf, "") # ""
             THEN <<InlineClass(prop_name,
                                MergeItemProperties(<<>>, prop_schema.allOf),
                                LastRef(prop_schema.allOf, ""), doc)>>
             ELSE <<>>
       IN inline \o InlineClassesOf(Tail(properties), doc)

generate_inline_classes(schema_name, doc) ==
  IF schema_name \notin DOMAIN doc THEN <<>>
  ELSE InlineClassesOf(WalkedProperties(doc[schema_name]), doc)

\* for schema_name in sorted(deps): the base of its oneOf field, then its class
RECURSIVE GenerateClasses(_, _, _, _)
GenerateClasses(order, doc, generated, written) ==
  IF order = <<>> THEN [raised |-> FALSE, generated |-> generated,
                        written |-> written, schemas |-> doc]
  ELSE IF Head(order) \in generated
  THEN GenerateClasses(Tail(order), doc, generated, written)
  ELSE LET schema_name == Head(order)
           generic_param == GenericParam(has_oneof_field(schema_name, doc))
           base_name == to_java_class_name(has_oneof_field(schema_name, doc)[1].k)
           base == IF generic_param # <<>> /\ base_name \notin generated
                   THEN <<[kind |-> "base", schema_name |-> schema_name,
                           class_name |-> base_name, base_class_name |-> "",
                           fields |-> <<>>]>>
                   ELSE <<>>
           with_base == IF base # <<>> THEN generated \cup {base_name}
                        ELSE generated
           class == generate_java_class_from_schema(schema_name, doc)
       IN IF class.raised
          THEN [raised |-> TRUE, generated |-> with_base,
                written |-> written \o base, schemas |-> doc]
          ELSE IF class.generated
          THEN GenerateClasses(
                 Tail(order), SchemasAfterClass(schema_name, doc),
                 with_base \cup {schema_name},
                 written \o base
                   \o <<[kind |-> "class", schema_name |-> schema_name,
                         class_name |-> class.class_name,
                         base_class_name |-> class.base_class_name,
                         fields |-> class.fields]>>)
          ELSE GenerateClasses(Tail(order), doc, with_base, written \o base)

\* for schema_name in sorted(deps): generate_inline_classes(schema_name, ...)
GenerateInline(order, doc) ==
  FlatMap(LAMBDA schema_name : generate_inline_classes(schema_name, doc), order)

\* process_endpoint for a request body: RecursionError raised by the closure
\* or by a class, or the closure and the files written.
process_endpoint(request_schema, doc) ==
  LET closure == get_all_schema_dependencies(request_schema, doc)
      deps == SortedNames(closure.visited)
      classes == GenerateClasses(deps, doc, {}, <<>>)
  IN IF closure.raised
     THEN [raised |-> TRUE, deps |-> {}, written |-> <<>>, schemas |-> doc]
     ELSE IF classes.raised
     THEN [raised |-> TRUE, deps |-> closure.visited,
           written |-> classes.written, schemas |-> classes.schemas]
     ELSE [raised |-> FALSE, deps |-> closure.visited,
           written |-> classes.written \o GenerateInline(deps, classes.schemas),
           schemas |-> classes.schemas]

EndpointPetShapes ==
  { Object(<<P("item", OneOf(<<Ref("Item"), Ref("pet_list")>>))>>),
    AllOf(<<Ref("Item"), Props(<<P("pet", OneOf(<<Ref("Item")>>))>>)>>),
    Object(<<P("item", Object(<<P("tag", Ref("pet_list"))>>))>>),
    Object(<<P("item", AllOf(<<Ref("Item"), Props(Tagged)>>))>>),
    Object(<<P("petList", Ref("pet_list")), P("item", Ref("Item"))>>),
    Object(<<P("children", ArrayOf(ArrayOf(Ref("Item"))))>>),
    Object(<<P("children", ArrayOf(OneOf(<<Ref("Item")>>)))>>),
    Object(<<P("owner", Object(<<P("pets", ArrayOf(Ref("Item")))>>))>>) }

\* Documents with two schema names that differ in their spelling only.
SpelledDocuments ==
  { [n \in {"Pet", "pet_list", "PetList"} |->
       CASE n = "Pet" -> p [] n = "pet_list" -> Object(Tagged)
         [] OTHER -> Object(Named)] :
    p \in { Object(<<P("a", Ref("pet_list")), P("b", Ref("PetList"))>>),
            Object(<<P("a", Ref("PetList"))>>) } }

\* Documents with a oneOf property named like the schema it lists, owned by
\* a schema that sorts before it.
ShadowedDocuments ==
  { [n \in TypeNames |->
       CASE n = "Pet" -> Object(Named) [] n = "pet_list" -> l
         [] OTHER -> Object(<<P("pet", OneOf(<<Ref("Pet"), Ref("pet_list")>>))>>)] :
    l \in PolyListShapes }

\* The documents in which Pet refers to Dog and Dog to Item or back to Pet.
ChainedDocuments ==
  { doc \in Documents :
      /\ doc["Pet"] \in ShapesTo("Dog")
      /\ doc["Dog"] \in ShapesTo("Item")
                          \cup {ArrayOf(Ref("Pet")),
                                Object(<<P("children", Ref("Pet"))>>)} }

EndpointDocuments ==
  ChainedDocuments \cup PolyDocuments \cup SpelledDocuments
    \cup ShadowedDocuments \cup
  { [n \in TypeNames |->
       CASE n = "Pet" -> p [] n = "pet_list" -> l [] OTHER -> i] :
    p \in EndpointPetShapes, l \in PolyListShapes, i \in PolyItemShapes }

EndpointNames == SchemaNames \cup TypeNames \cup {"PetList"}

InitEndpoint ==
  /\ schemas \in EndpointDocuments
  /\ pc = "endpoint"
  /\ root = Ghost
  /\ visited = {}
  /\ stack = <<>>
  /\ first = <<>>
  /\ out = NoCall

\* if request_schema and request_schema in schemas: ...
ProcessEndpoint(request_schema) ==
  /\ pc = "endpoint" /\ out = NoCall
  /\ request_schema \in DOMAIN schemas
  /\ out' = [op |-> "endpoint", request_schema |-> request_schema,
             result |-> process_endpoint(request_schema, schemas)]
  /\ schemas' = out'.result.schemas
  /\ UNCHANGED walk

\* extract_refs_from_properties: the calls made for one property, in order
PropertyDependencyCalls(e) ==
  OwnRef(e.v)
  \o (IF GetType(e.v) = "array" /\ Has(e.v, "items") THEN OwnRef(e.v.items[1])
      ELSE <<>>)
  \o (IF Has(e.v, "oneOf") THEN FlatMap(OwnRef, e.v.oneOf) ELSE <<>>)
  \o (IF Has(e.v, "anyOf") THEN FlatMap(OwnRef, e.v.anyOf) ELSE <<>>)
  \o (IF Has(e.v, "allOf") THEN FlatMap(OwnRef, e.v.allOf) ELSE <<>>)

\* for sub_schema in schema['allOf']: its $ref, or else its properties
AllOfDependencyCalls(sub_schema) ==
  IF Has(sub_schema, "$ref") THEN OwnRef(sub_schema)
  ELSE IF Has(sub_schema, "properties")
  THEN FlatMap(PropertyDependencyCalls, sub_schema.properties)
  ELSE <<>>

\* The calls get_schema_dependencies makes for a schema, in order.
DependencyCalls(schema) ==
  (IF Has(schema, "allOf") THEN FlatMap(AllOfDependencyCalls, schema.allOf)
   ELSE <<>>)
  \o (IF Has(schema, "oneOf") THEN FlatMap(OwnRef, schema.oneOf) ELSE <<>>)
  \o (IF Has(schema, "anyOf") THEN FlatMap(OwnRef, schema.anyOf) ELSE <<>>)
  \o (IF Has(schema, "properties")
      THEN FlatMap(PropertyDependencyCalls, schema.properties) ELSE <<>>)

\* The references followed from a schema the walk has just entered.
FollowedDependencies(schema, seen) == DependencyCalls(schema)

\* get_schema_dependencies of generate_json_examples.py: the calls of one
\* activation, in order, threading the visited set
RECURSIVE DependencyWalk(_, _, _)
DependencyWalk(todo, doc, seen) ==
  IF todo = <<>> THEN seen
  ELSE IF EntryGuard(Head(todo), seen, doc)
  THEN DependencyWalk(Tail(todo), doc, seen)
  ELSE DependencyWalk(
         Tail(todo), doc,
         DependencyWalk(FollowedDependencies(doc[Head(todo)], seen), doc,
                        seen \cup {Head(todo)}))

get_schema_dependencies(schema_name, doc) ==
  DependencyWalk(<<schema_name>>, doc, {})

\* dependencies = get_schema_dependencies(schema_name, schemas)
ExampleDependencies(schema_name) ==
  /\ pc = "endpoint" /\ out = NoCall
  /\ schema_name \in DOMAIN schemas
  /\ out' = [op |-> "dependencies", schema_name |-> schema_name,
             deps |-> get_schema_dependencies(schema_name, schemas)]
  /\ UNCHANGED <<schemas, walk>>

NextEndpoint ==
  \/ \E request_schema \in EndpointNames : ProcessEndpoint(request_schema)
  \/ \E schema_name \in EndpointNames : ExampleDependencies(schema_name)

SpecEndpoint == InitEndpoint /\ [][NextEndpoint]_vars

(***************************************************************************)
(* Name conversion: the class name and the field name of every name made   *)
(* of at most MaxAtoms pieces.                                             *)
(***************************************************************************)
MaxAtoms == 3

NameAtoms == {"p", "L", "id", "2", "_", "-", " ", ".", ".json"}

RECURSIVE NamesOf(_)
NamesOf(n) ==
  IF n = 0 THEN {""}
  ELSE NamesOf(n - 1) \cup {name \o atom : name \in NamesOf(n - 1), atom \in NameAtoms}

Names == NamesOf(MaxAtoms)

InitNames ==
  /\ schemas = [n \in SchemaNames |-> Props(Named)]
  /\ pc = "names"
  /\ root = Ghost
  /\ visited = {}
  /\ stack = <<>>
  /\ first = <<>>
  /\ out = NoCall

\* class_name = to_java_class_name(schema_name)
ClassName(name) ==
  /\ out' = [op |-> "class_name", name |-> name,
             result |-> to_java_class_name(name)]
  /\ UNCHANGED <<schemas, walk>>

\* to_java_class_name of generators/, on the stem of a schema file
ClassNameOfFile(name) ==
  /\ out' = [op |-> "class_name_of_file", name |-> name,
             result |-> to_java_class_name_of_file(name)]
  /\ UNCHANGED <<schemas, walk>>

\* java_field = to_java_field_name(prop_name)
FieldName(name) ==
  /\ out' = [op |-> "field_name", name |-> name,
             result |-> to_java_field_name(name)]
  /\ UNCHANGED <<schemas, walk>>

NextNames ==
  /\ pc = "names" /\ out = NoCall
  /\ \E name \in Names : \/ ClassName(name)
                          \/ ClassNameOfFile(name)
                          \/ FieldName(name)

SpecNames == InitNames /\ [][NextNames]_vars

(***************************************************************************)
(* The closure of a root: the visited set of a completed walk.             *)
(***************************************************************************)
Range(list) == {list[i] : i \in 1..Len(list)}

\* A bare array wrapper: type array, no properties, no allOf.
BareArrayWrapper(schema) ==
  /\ "type" \in schema.keys /\ schema.type = "array"
  /\ "properties" \notin schema.keys
  /\ "allOf" \notin schema.keys

RefNames(list) == {RefName(list[i]) : i \in {j \in 1..Len(list) : Has(list[j], "$ref")}}

\* The name reached from an array wrapper through its items $ref chain, and the
\* wrappers on the way; a chain that comes back to a wrapper is a cycle.
RECURSIVE WrapperChainCycles(_, _, _)
WrapperChainCycles(doc, name, onChain) ==
  IF name \notin DOMAIN doc \/ ~BareArrayWrapper(doc[name]) THEN FALSE
  ELSE IF name \in onChain THEN TRUE
  ELSE IF ~(Has(doc[name], "items") /\ Has(doc[name].items[1], "$ref")) THEN FALSE
  ELSE WrapperChainCycles(doc, RefName(doc[name].items[1]), onChain \cup {name})

HasWrapperCycle(doc) == \E n \in DOMAIN doc : WrapperChainCycles(doc, n, {})

\* C1: the walk of every root of every document terminates: it never runs
\* into the interpreter's recursion limit.
C1_ClosureTerminates == pc # "RecursionError"

\* The walk fails only on documents whose array wrappers refer to each other
\* in a cycle; on all others the recursion limit of the model is never met.
RecursionErrorOnlyOnWrapperCycle ==
  pc = "RecursionError" => HasWrapperCycle(schemas)

\* Every declaration of a property of a schema: its own and those of the
\* elements of its allOf.
C2_Declared(schema) ==
  (IF Has(schema, "properties") THEN Range(schema.properties) ELSE {})
  \cup (IF Has(schema, "allOf")
        THEN UNION {Range(schema.allOf[i].properties) :
                      i \in {j \in 1..Len(schema.allOf) :
                               Has(schema.allOf[j], "properties")}}
        ELSE {})

C2_AllOfRefs(schema) ==
  IF Has(schema, "allOf") THEN RefNames(schema.allOf) ELSE {}

\* The names the claim lists for one property.
C2_ClaimedOf(prop) ==
  (IF Has(prop, "$ref") THEN {RefName(prop)} ELSE {})
  \cup (IF Has(prop, "items") THEN RefNames(prop.items) ELSE {})
  \cup (IF Has(prop, "oneOf") THEN RefNames(prop.oneOf) ELSE {})
  \cup (IF Has(prop, "anyOf") THEN RefNames(prop.anyOf) ELSE {})
  \cup (IF Has(prop, "properties")
        THEN RefNames([i \in 1..Len(prop.properties) |-> prop.properties[i].v])
        ELSE {})

C2_Claimed(schema) ==
  C2_AllOfRefs(schema) \cup UNION {C2_ClaimedOf(e.v) : e \in C2_Declared(schema)}

\* C2 as stated: the closure contains every document schema named by a $ref
\* of an allOf element of a member, or by a property of a member through its
\* own $ref, its items, its oneOf, its anyOf or its inline object.
C2_ClosedUnderAllRefs ==
  pc = "done" =>
    \A S \in visited : (C2_Claimed(schemas[S]) \cap DOMAIN schemas) \subseteq visited

\* The declarations in effect: a name declared again by a later allOf element
\* (or by an allOf element after the schema's own properties) replaces the
\* earlier declaration.
C2_Effective(schema) ==
  LET own == IF Has(schema, "properties") THEN <<schema.properties>> ELSE <<>>
      inl == IF Has(schema, "allOf")
             THEN [i \in 1..Len(schema.allOf) |->
                     IF Has(schema.allOf[i], "properties")
                     THEN schema.allOf[i].properties ELSE <<>>]
             ELSE <<>>
      groups == own \o inl
  IN {e \in C2_Declared(schema) :
        \E g \in 1..Len(groups) :
          /\ e \in Range(groups[g])
          /\ \A h \in (g + 1)..Len(groups) : e.k \notin Keys(groups[h])}

\* The names the walk follows for one property: anyOf is not among them, items
\* count for a property of type array, an inline object is one of type object.
C2_FollowedOf(prop) ==
  (IF Has(prop, "$ref") THEN {RefName(prop)} ELSE {})
  \cup (IF Has(prop, "type") /\ prop.type = "array" /\ Has(prop, "items")
        THEN RefNames(prop.items) ELSE {})
  \cup (IF Has(prop, "oneOf") THEN RefNames(prop.oneOf) ELSE {})
  \cup (IF Has(prop, "type") /\ prop.type = "object" /\ Has(prop, "properties")
        THEN RefNames([i \in 1..Len(prop.properties) |-> prop.properties[i].v])
        ELSE {})

C2_Followed(schema) ==
  C2_AllOfRefs(schema) \cup UNION {C2_FollowedOf(e.v) : e \in C2_Effective(schema)}

\* C2 as amended: the closure contains every document schema that is not a
\* bare array wrapper and is named by a $ref of an allOf element of a member,
\* or by a property in effect of a member through its own $ref, the items of
\* an array, its oneOf or its inline object of type object.
C2_ClosedUnderFollowedRefs ==
  pc = "done" =>
    \A S \in visited :
      \A n \in C2_Followed(schemas[S]) \cap DOMAIN schemas :
        ~BareArrayWrapper(schemas[n]) => n \in visited

\* A completed walk whose result has three members, each named by another.
C2_Witness ==
  /\ pc = "done" /\ visited = SchemaNames
  /\ \A n \in visited : \E S \in visited \ {n} : n \in C2_Followed(schemas[S])

\* C3 as stated: every root is a member of its closure.
C3_RootInClosure == pc = "done" => root \in visited

\* C3 as amended: a root that is a document schema and not a bare array
\* wrapper is a member of its closure.
C3_SchemaRootInClosure ==
  (pc = "done" /\ root \in DOMAIN schemas /\ ~BareArrayWrapper(schemas[root]))
    => root \in visited

C3_Witness ==
  /\ pc = "done" /\ root \in DOMAIN schemas /\ ~BareArrayWrapper(schemas[root])
  /\ root \in visited /\ Cardinality(visited) > 1

\* C4: a walk of the root of the first completed walk gives the same set
\* again, whatever walks were made in between.
C4_SameRootSameClosure ==
  (pc = "done" /\ first # <<>> /\ first[1].root = root)
    => visited = first[1].deps

\* The root walked again after a walk of another root, with a result that has
\* members the other root's walk does not reach from them.
C4_Witness ==
  /\ pc = "done" /\ first # <<>> /\ first[1].root = root /\ first[1].between
  /\ visited # {} /\ visited # SchemaNames

\* C5: no bare array wrapper is ever a member of the visited set, and the
\* closure of a wrapper is the closure of the schema its items name.
C5_WrapperNeverInClosure ==
  /\ \A n \in visited : n \in DOMAIN schemas /\ ~BareArrayWrapper(schemas[n])
  /\ (pc = "done" /\ root \in DOMAIN schemas /\ BareArrayWrapper(schemas[root])
        /\ first # <<>> /\ RefNames(schemas[root].items) = {first[1].root})
       => visited = first[1].deps

\* The walk of a wrapper completed after the walk of the schema its items name.
C5_Witness ==
  /\ pc = "done" /\ root \in DOMAIN schemas /\ BareArrayWrapper(schemas[root])
  /\ first # <<>> /\ RefNames(schemas[root].items) = {first[1].root}
  /\ Cardinality(visited) > 1


(***************************************************************************)
(* Type resolution.  Array(T) is written List<T>; Reference(name) is the   *)
(* type name of the schema name.                                           *)
(***************************************************************************)
Array(t) == "List<" \o t \o ">"

\* A call of the type resolver has been made.
Typed == out.op = "type"

\* The node with only the keys of K.
Restrict(node, K) == [node EXCEPT !.keys = node.keys \cap K]

\* The keys that belong to the keyword of highest precedence on the node.
C8_DecidingKeys(node) ==
  IF "$ref" \in node.keys THEN {"$ref"}
  ELSE IF "allOf" \in node.keys THEN {"allOf"}
  ELSE IF "oneOf" \in node.keys THEN {"oneOf"}
  ELSE node.keys

\* C8: the type of a node is the type of the node stripped of every keyword
\* of lower precedence than the highest one it carries, in the order
\* $ref > allOf > oneOf > type.
C8_Precedence ==
  Typed =>
    out.type = get_java_type_from_openapi(
                 Restrict(out.schema, C8_DecidingKeys(out.schema)),
                 schemas, {}, out.field_name)

\* A node with all four keywords, resolved to the class of its $ref, which the
\* keywords of lower precedence would not give.
C8_Witness ==
  /\ Typed /\ {"$ref", "allOf", "oneOf", "type"} \subseteq out.schema.keys
  /\ out.type = "Item"
  /\ get_java_type_from_openapi(Restrict(out.schema, {"allOf"}), schemas, {},
                                out.field_name) # "Item"

\* The node is a $ref, and nothing else, to a schema of the document.
C9_RefToSchema == Typed /\ out.schema.keys = {"$ref"} /\ RefName(out.schema) \in DOMAIN schemas

C9_Items(schema) == IF "items" \in schema.keys THEN schema.items[1] ELSE EmptyNode

\* C9 as stated: a $ref to a bare array wrapper resolves to the array of the
\* type of the wrapper's items, a $ref to any other schema to its reference.
C9_WrapperInlined ==
  C9_RefToSchema =>
    LET name == RefName(out.schema)
    IN IF BareArrayWrapper(schemas[name])
       THEN out.type = Array(get_java_type_from_openapi(
                               C9_Items(schemas[name]), schemas, {}, ""))
       ELSE out.type = to_java_class_name(name)

\* The names of the $refs met in a node: its own, those of its items and of
\* the elements of its allOf and oneOf, and those met in the array wrappers
\* these name.
RECURSIVE C9_RefsWithin(_, _, _)
C9_RefsWithin(doc, node, seen) ==
  LET own == IF "$ref" \in node.keys THEN {RefName(node)} ELSE {}
      inItems == IF "items" \in node.keys
                 THEN C9_RefsWithin(doc, node.items[1], seen) ELSE {}
      inAllOf == IF "allOf" \in node.keys
                 THEN UNION {C9_RefsWithin(doc, node.allOf[i], seen) :
                               i \in 1..Len(node.allOf)}
                 ELSE {}
      inOneOf == IF "oneOf" \in node.keys
                 THEN UNION {C9_RefsWithin(doc, node.oneOf[i], seen) :
                               i \in 1..Len(node.oneOf)}
                 ELSE {}
      wrappers == {n \in (own \cap DOMAIN doc) \ seen : BareArrayWrapper(doc[n])}
  IN own \cup inItems \cup inAllOf \cup inOneOf
     \cup UNION {C9_RefsWithin(doc, doc[n], seen \cup {n}) : n \in wrappers}

\* Resolving the items of wrapper `name` meets a $ref to the wrapper itself.
C9_RefersBack(doc, name) ==
  name \in C9_RefsWithin(doc, C9_Items(doc[name]), {name})

\* C9 as amended: a $ref to a bare array wrapper resolves to the array of the
\* type of the wrapper's items resolved with the wrapper marked as visited,
\* which is the type of the items unless they refer back to the wrapper; a
\* $ref to any other schema resolves to its reference.
C9_WrapperInlinedOnce ==
  C9_RefToSchema =>
    LET name == RefName(out.schema)
    IN IF BareArrayWrapper(schemas[name])
       THEN /\ out.type = Array(get_java_type_from_openapi(
                                  C9_Items(schemas[name]), schemas, {name}, ""))
            /\ ~C9_RefersBack(schemas, name) =>
                 out.type = Array(get_java_type_from_openapi(
                                    C9_Items(schemas[name]), schemas, {}, ""))
       ELSE out.type = to_java_class_name(name)

\* A $ref to a wrapper of a wrapper of a schema, resolved to a list of lists,
\* and a $ref to a schema whose type name differs from its name.
C9_Witness ==
  /\ C9_RefToSchema
  /\ BareArrayWrapper(schemas[RefName(out.schema)])
  /\ ~C9_RefersBack(schemas, RefName(out.schema))
  /\ out.type = "List<List<Pet>>"

\* The node has allOf and no $ref.
C10_AllOfNode == Typed /\ "allOf" \in out.schema.keys /\ "$ref" \notin out.schema.keys

C10_Mixed(list) ==
  /\ \E i \in 1..Len(list) : "properties" \in list[i].keys
  /\ \E i \in 1..Len(list) : "$ref" \in list[i].keys

\* The type of the first element of the list that has a $ref.
C10_FirstRefType(list) ==
  LET i == CHOOSE k \in 1..Len(list) :
             "$ref" \in list[k].keys /\ \A j \in 1..(k - 1) : "$ref" \notin list[j].keys
  IN get_java_type_from_openapi(Restrict(list[i], {"$ref"}), schemas, {}, "")

\* C10 as stated: a list with both inline properties and a $ref is the inline
\* class named from the field; otherwise a first element that is a $ref gives
\* the type, otherwise the first $ref of the list.
C10_AllOfType ==
  C10_AllOfNode =>
    LET list == out.schema.allOf
    IN IF C10_Mixed(list) THEN out.type = to_java_class_name(out.field_name)
       ELSE IF list # <<>> /\ "$ref" \in list[1].keys
       THEN out.type = get_java_type_from_openapi(list[1], schemas, {}, "")
       ELSE (\E i \in 1..Len(list) : "$ref" \in list[i].keys)
              => out.type = C10_FirstRefType(list)

\* C10 as amended: the mixed list is the inline class when a field name is
\* given; with none it resolves as any other list, to the type of its first
\* $ref; a list with no $ref is Object.
C10_AllOfTypeOfField ==
  C10_AllOfNode =>
    LET list == out.schema.allOf
    IN IF C10_Mixed(list) /\ out.field_name # ""
       THEN out.type = to_java_class_name(out.field_name)
       ELSE IF list # <<>> /\ "$ref" \in list[1].keys
       THEN out.type = get_java_type_from_openapi(list[1], schemas, {}, "")
       ELSE IF \E i \in 1..Len(list) : "$ref" \in list[i].keys
       THEN out.type = C10_FirstRefType(list)
       ELSE out.type = "Object"

\* A mixed list resolved for a field to the inline class of the field.
C10_Witness ==
  /\ C10_AllOfNode /\ C10_Mixed(out.schema.allOf)
  /\ out.field_name = "pet_owner" /\ out.type = "PetOwner"


(***************************************************************************)
(* Inheritance.                                                            *)
(***************************************************************************)
\* A class has been generated for a schema.
Generated == out.op = "class" /\ out.class.generated

\* The schema's allOf starts with a $ref: the name it refers to, else "".
FirstElementRef(schema) ==
  IF "allOf" \in schema.keys /\ schema.allOf # <<>> /\ "$ref" \in schema.allOf[1].keys
  THEN RefName(schema.allOf[1]) ELSE ""

\* The names of the fields a schema declares: its properties and the
\* properties of the elements of its allOf.
C6_Declared(schema) == {e.k : e \in C2_Declared(schema)}

\* The fully inherited field set of a schema: the fields it declares and those
\* of its base, recursively.
RECURSIVE C6_FieldSet(_, _, _)
C6_FieldSet(doc, name, seen) ==
  IF name \notin DOMAIN doc \/ name \in seen THEN {}
  ELSE C6_Declared(doc[name])
       \cup C6_FieldSet(doc, FirstElementRef(doc[name]), seen \cup {name})

\* C6: the class of a schema whose allOf starts with {$ref: P} has base P and
\* declares no field whose name is in P's fully inherited field set.
C6_BaseAndOwnFields ==
  (Generated /\ FirstElementRef(schemas[out.schema_name]) # "") =>
    LET base == FirstElementRef(schemas[out.schema_name])
    IN /\ out.class.base_class = base
       /\ out.class.base_class_name = to_java_class_name(base)
       /\ Keys(out.class.own_props) \cap C6_FieldSet(schemas, base, {}) = {}

\* Item extends Dog, Dog extends Pet and declares name again with another
\* type: the class of Item declares tag only, the name and breed of its bases
\* are dropped.
C6_Witness ==
  /\ Generated /\ out.schema_name = "Item" /\ out.class.base_class = "Dog"
  /\ FirstElementRef(schemas["Dog"]) = "Pet"
  /\ schemas["Pet"] = Object(<<P("name", Prim("string"))>>)
  /\ \E e \in C2_Declared(schemas["Dog"]) : e.k = "name" /\ e.v = Prim("integer")
  /\ Keys(out.class.own_props) = {"tag"}

\* The schema has no $ref as first element of its allOf.
C7_NoFirstRef(schema) == FirstElementRef(schema) = ""

\* C7: a schema whose allOf does not start with a $ref has no parent, in the
\* class generated for it, in the document-wide inheritance map and in the
\* grouping of the example payloads.
C7_FirstElementOnly ==
  /\ (Generated /\ C7_NoFirstRef(schemas[out.schema_name]))
       => out.class.base_class = ""
  /\ out.op = "inheritance_map" =>
       \A n \in DOMAIN schemas :
         C7_NoFirstRef(schemas[n])
           => to_java_class_name(n) \notin Keys(out.inheritance_map)
  /\ out.op = "examples" =>
       \A n \in DOMAIN schemas :
         C7_NoFirstRef(schemas[n]) => out.inheritance_map[n] = ""

\* The same for the first two places only, where it holds.
C7_FirstElementOnlyInClasses ==
  /\ (Generated /\ C7_NoFirstRef(schemas[out.schema_name]))
       => out.class.base_class = ""
  /\ out.op = "inheritance_map" =>
       \A n \in DOMAIN schemas :
         C7_NoFirstRef(schemas[n])
           => to_java_class_name(n) \notin Keys(out.inheritance_map)

(***************************************************************************)
(* oneOf and the primitive types.                                          *)
(***************************************************************************)
\* The node is resolved by its oneOf: it has no $ref and no allOf, and the
\* list has a first variant.
C11_OneOfNode ==
  /\ Typed /\ "oneOf" \in out.schema.keys
  /\ "$ref" \notin out.schema.keys /\ "allOf" \notin out.schema.keys
  /\ out.schema.oneOf # <<>>

\* C11: the type of a node with oneOf (no $ref, no allOf) is the type of the
\* first variant of the list, whether that variant is a $ref or an inline
\* schema.
C11_FirstVariantType ==
  C11_OneOfNode =>
    out.type = get_java_type_from_openapi(out.schema.oneOf[1], schemas, {}, "")

\* The same for a first variant that is a $ref, where it holds.
C11_FirstRefVariantType ==
  (C11_OneOfNode /\ "$ref" \in out.schema.oneOf[1].keys) =>
    out.type = get_java_type_from_openapi(out.schema.oneOf[1], schemas, {}, "")

\* The node carries none of $ref, allOf and oneOf.
C12_KeywordFree(schema) == schema.keys \cap {"$ref", "allOf", "oneOf"} = {}

\* The type the node was given by the client-interface generator.
ClientTyped == out.op = "client_type"

\* The type of the items of an array, by the generator that resolved the array.
C12_ItemType(schema, client) ==
  IF client THEN get_java_type_from_schema(C9_Items(schema), schemas)
  ELSE get_java_type_from_openapi(C9_Items(schema), schemas, {}, "")

\* The mapping of the claim.  A node without type counts as an object.
C12_Mapping(schema, field_name, client) ==
  LET type == IF "type" \in schema.keys THEN schema.type ELSE "object"
      format == IF "format" \in schema.keys THEN schema.format ELSE ""
  IN CASE type = "string" /\ format = "date-time" -> "LocalDateTime"
       [] type = "string" /\ format = "date" -> "LocalDate"
       [] type = "string" /\ format \notin {"date-time", "date"} -> "String"
       [] type = "integer" -> "Long"
       [] type = "number" -> "Double"
       [] type = "boolean" -> "Boolean"
       [] type = "array" -> Array(C12_ItemType(schema, client))
       [] type = "object" /\ "properties" \in schema.keys /\ field_name # "" ->
            to_java_class_name(field_name)
       [] OTHER -> "Object"

\* C12: a keyword-free node is mapped by the table of the claim, by the class
\* generator and by the client-interface generator alike.
C12_PrimitiveMapping ==
  /\ (Typed /\ C12_KeywordFree(out.schema)) =>
       out.type = C12_Mapping(out.schema, out.field_name, FALSE)
  /\ (ClientTyped /\ C12_KeywordFree(out.schema)) =>
       out.type = C12_Mapping(out.schema, "", TRUE)

\* The same for the class generator alone, where it holds.
C12_PrimitiveMappingOfClasses ==
  (Typed /\ C12_KeywordFree(out.schema)) =>
    out.type = C12_Mapping(out.schema, out.field_name, FALSE)

(***************************************************************************)
(* Idempotence, missing targets and termination of the type resolver.      *)
(***************************************************************************)
\* The type resolver has been called twice on the same node.
TypedTwice == out.op = "type_twice"

\* C13: a second call of the type resolver on the same node returns the type
\* the first call returned.
C13_Idempotent == TypedTwice => out.again = out.type

\* A $ref to an array wrapper resolved twice to the same list: the first call
\* has added the wrapper to its visited set, which the second does not see.
C13_Witness ==
  /\ TypedTwice /\ out.schema = Ref("pet_list")
  /\ BareArrayWrapper(schemas["pet_list"])
  /\ "pet_list" \in VisitedAfter(out.schema, schemas, {}, out.field_name)
  /\ out.type = "List<Pet>" /\ out.again = "List<Pet>"

\* The pointer names a schema the document does not define.
C14_Dangling(node) == "$ref" \in node.keys /\ RefName(node) \notin DOMAIN schemas

C15_TypeResolutionTerminates == out.op # "RecursionError"

\* Two array wrappers whose items name each other, resolved from a $ref to
\* one of them: the second $ref to Pet finds Pet in visited and is the
\* back-reference.
C15_Witness ==
  /\ Typed /\ out.schema = Ref("Pet")
  /\ schemas["Pet"] = ArrayOf(Ref("pet_list"))
  /\ schemas["pet_list"] = ArrayOf(Ref("Pet"))
  /\ out.type = "List<List<Pet>>"
  /\ {"Pet", "pet_list"} \subseteq out.visited

\* C16: the fully inherited field set of every schema of every document is
\* computed: class generation completes on cyclic allOf references instead of
\* failing with RecursionError.
C16_InheritedFieldsTerminate == out.op = "class" => ~out.class.raised

\* An allOf reference leads back to the schema it starts from.
RECURSIVE AllOfLeadsTo(_, _, _, _)
AllOfLeadsTo(doc, from, to, seen) ==
  /\ from \in DOMAIN doc /\ from \notin seen /\ "allOf" \in doc[from].keys
  /\ \E n \in RefNames(doc[from].allOf) :
       n = to \/ AllOfLeadsTo(doc, n, to, seen \cup {from})

HasAllOfCycle(doc) == \E n \in DOMAIN doc : AllOfLeadsTo(doc, n, n, {})

\* Class generation fails in this way only on documents with such a cycle.
RecursionErrorOnlyOnAllOfCycle ==
  (out.op = "class" /\ out.class.raised) => HasAllOfCycle(schemas)

(***************************************************************************)
(* Polymorphism: the descriptors of oneOf properties, the bases of their   *)
(* variants and the generic parameters of the classes that own them.       *)
(***************************************************************************)
\* The polymorphism analysis has run.
Analysed == out.op = "polymorphism"

\* The type names of the schemas a oneOf list refers to, in the list's order.
C17_Variants(list) ==
  LET refs == SelectSeq(list, LAMBDA v : "$ref" \in v.keys)
  IN [i \in 1..Len(refs) |-> to_java_class_name(RefName(refs[i]))]

\* The declaration is a property whose oneOf lists $refs.
C17_OneOfOfRefs(e) == "oneOf" \in e.v.keys /\ C17_Variants(e.v.oneOf) # <<>>

\* A descriptor is recorded for the field of the schema.
C17_Recorded(S, field) ==
  /\ to_java_class_name(S) \in Keys(out.maps.oneof_fields_map)
  /\ field \in Keys(Lookup(out.maps.oneof_fields_map, to_java_class_name(S)))

C17_DescriptorOf(S, field) ==
  Lookup(Lookup(out.maps.oneof_fields_map, to_java_class_name(S)), field)

\* The descriptor of the declaration e of schema S is the claim's.
C17_DescribedAs(S, e) ==
  /\ C17_Recorded(S, e.k)
  /\ C17_DescriptorOf(S, e.k).types = C17_Variants(e.v.oneOf)
  /\ C17_DescriptorOf(S, e.k).baseClass = to_java_class_name(e.k)

\* C17 as stated: every property a schema declares, directly or inside an allOf
\* element, whose oneOf lists $refs has its descriptor.
C17_EveryDeclaredOneOfRecorded ==
  Analysed =>
    \A S \in DOMAIN schemas :
      \A e \in C2_Declared(schemas[S]) : C17_OneOfOfRefs(e) => C17_DescribedAs(S, e)

\* C17 as amended: the properties in effect of a schema whose oneOf lists $refs
\* are the fields with a descriptor, and the descriptor has the variants in
\* list order and the type name of the field name as base type name.
C17_EveryEffectiveOneOfRecorded ==
  Analysed =>
    \A S \in DOMAIN schemas :
      /\ \A e \in C2_Effective(schemas[S]) :
           C17_OneOfOfRefs(e) => C17_DescribedAs(S, e)
      /\ \A field \in {e.k : e \in C2_Declared(schemas[S])} :
           C17_Recorded(S, field) =>
             \E e \in C2_Effective(schemas[S]) : e.k = field /\ C17_OneOfOfRefs(e)

\* Pet has two oneOf properties and pet_list, unrelated, a property of the
\* same name as one of them: three descriptors, two with the same base type.
C17_Witness ==
  /\ Analysed
  /\ C17_Recorded("Pet", "payload") /\ C17_Recorded("Pet", "pet_owner")
  /\ C17_Recorded("pet_list", "payload")
  /\ C17_DescriptorOf("Pet", "payload").types = <<"Item", "PetList">>
  /\ C17_DescriptorOf("Pet", "payload").baseClass = "Payload"
  /\ C17_DescriptorOf("pet_list", "payload").baseClass = "Payload"
  /\ C17_DescriptorOf("Pet", "pet_owner").baseClass = "PetOwner"

\* Every descriptor recorded, of every class.
C18_Descriptors ==
  UNION {Range(out.maps.oneof_fields_map[i].v) :
           i \in 1..Len(out.maps.oneof_fields_map)}

\* The schemas of the document that the class name names.
C18_SchemasOf(class_name) ==
  {n \in DOMAIN schemas : to_java_class_name(n) = class_name}

\* The base type names of the oneOf properties in effect that list schema V.
C18_OneOfBasesOf(V) ==
  {to_java_class_name(e.k) :
     e \in {d \in UNION {C2_Effective(schemas[S]) : S \in DOMAIN schemas} :
              "oneOf" \in d.v.keys /\ V \in RefNames(d.v.oneOf)}}

\* C18: every variant has exactly one base: the schema its allOf starts with
\* when it starts with a $ref, else the base type of a oneOf field that lists
\* it; in the inheritance map after both analyses, and in the class generated
\* for the variant.
C18_VariantHasOneBase ==
  /\ Analysed =>
       LET map == out.maps.inheritance_map
       IN /\ \A i, j \in 1..Len(map) : map[i].k = map[j].k => i = j
          /\ \A d \in C18_Descriptors :
               \A V \in Range(d.v.types) :
                 /\ V \in Keys(map)
                 /\ IF \E n \in C18_SchemasOf(V) : FirstElementRef(schemas[n]) # ""
                    THEN \E n \in C18_SchemasOf(V) :
                           /\ FirstElementRef(schemas[n]) # ""
                           /\ Lookup(map, V)
                                = to_java_class_name(FirstElementRef(schemas[n]))
                    ELSE \E b \in C18_Descriptors :
                           V \in Range(b.v.types) /\ Lookup(map, V) = b.v.baseClass
  /\ (Generated /\ C18_OneOfBasesOf(out.schema_name) # {}) =>
       IF FirstElementRef(schemas[out.schema_name]) # ""
       THEN out.class.base_class_name
              = to_java_class_name(FirstElementRef(schemas[out.schema_name]))
       ELSE out.class.base_class_name \in C18_OneOfBasesOf(out.schema_name)

\* pet_list and Item are the variants of Pet.payload, and pet_list's allOf
\* starts with a $ref to Item: pet_list extends Item, Item extends Payload.
C18_Witness ==
  /\ Analysed
  /\ C17_Recorded("Pet", "payload")
  /\ C17_DescriptorOf("Pet", "payload").types = <<"PetList", "Item">>
  /\ FirstElementRef(schemas["pet_list"]) = "Item"
  /\ Lookup(out.maps.inheritance_map, "PetList") = "Item"
  /\ Lookup(out.maps.inheritance_map, "Item") = "Payload"

\* The generic parameter the claim gives a property.
C19_Param(name) ==
  "T" \o to_java_class_name(name) \o " extends " \o to_java_class_name(name)

\* C19: the class of a schema has, for each of its fields whose property has
\* a oneOf of $refs, the generic parameter of the field, and the field has the
\* parameter as its type.
C19_EveryOneOfFieldGeneric ==
  Generated =>
    \A i \in 1..Len(out.class.own_props) :
      C17_OneOfOfRefs(out.class.own_props[i]) =>
        /\ C19_Param(out.class.own_props[i].k) \in Range(out.class.generic_param)
        /\ out.class.fields[i].type
             = "T" \o to_java_class_name(out.class.own_props[i].k)

\* The same for the first oneOf property of a class without base, where it
\* holds.
C19_FirstOneOfFieldGeneric ==
  Generated =>
    \A i \in 1..Len(out.class.own_props) :
      (/\ C17_OneOfOfRefs(out.class.own_props[i])
       /\ \A j \in 1..(i - 1) : "oneOf" \notin out.class.own_props[j].v.keys
       /\ out.class.base_class_name = "") =>
        /\ C19_Param(out.class.own_props[i].k) \in Range(out.class.generic_param)
        /\ out.class.fields[i].type
             = "T" \o to_java_class_name(out.class.own_props[i].k)

(***************************************************************************)
(* The references of the types of a class.                                 *)
(***************************************************************************)
\* The type inside the lists of a type.
RECURSIVE C20_Element(_)
C20_Element(type) ==
  IF Len(type) > 5 /\ SubSeq(type, 1, 5) = "List<"
  THEN C20_Element(SubSeq(type, 6, Len(type) - 1))
  ELSE type

C20_BuiltIn ==
  {"String", "Long", "Double", "Boolean", "LocalDate", "LocalDateTime", "Object"}

\* The type names of the schemas of the document.
C20_SchemaTypes == {to_java_class_name(n) : n \in DOMAIN schemas}

\* The base types synthesized for the oneOf properties of the document.
C20_Synthesized ==
  {to_java_class_name(e.k) :
     e \in {d \in UNION {C2_Declared(schemas[S]) : S \in DOMAIN schemas} :
              "oneOf" \in d.v.keys}}

\* What a field type may name besides a schema or a synthesized base: a
\* built-in type, the inline class or the generic parameter of the field.
C20_OwnTypes(field) ==
  C20_BuiltIn \cup {to_java_class_name(field), "T" \o to_java_class_name(field)}

\* The references of the field types of the class name schemas or bases.
C20_FieldReferencesResolve ==
  Generated =>
    \A i \in 1..Len(out.class.fields) :
      C20_Element(out.class.fields[i].type)
        \in C20_OwnTypes(out.class.fields[i].k) \cup C20_SchemaTypes
              \cup C20_Synthesized

\* C20: every reference of the types of a class, of its fields, of the
\* elements of its lists and of its base, names a schema of the document or a
\* base type synthesized for a oneOf property.
C20_ReferencesResolve ==
  /\ C20_FieldReferencesResolve
  /\ (Generated /\ out.class.base_class_name # "") =>
       out.class.base_class_name \in C20_SchemaTypes \cup C20_Synthesized

(***************************************************************************)
(* C21: the operations only read the loaded document.                      *)
(***************************************************************************)
\* A step of the closure or a call of the type resolver.
C21_WalkOrType ==
  \/ <<pc, root, visited, stack, first>>' # <<pc, root, visited, stack, first>>
  \/ out'.op \in {"type", "RecursionError"}

\* The closure and the type resolver leave every schema node, its required
\* list included, as it was loaded.
C21_WalkAndTypeReadOnly == [][C21_WalkOrType => schemas' = schemas]_vars

\* C21: no operation (closure, type resolution, class generation) changes a
\* schema node of the loaded document, its required list included, however
\* often and in whatever order the operations run.
C21_SchemasReadOnly == [][schemas' = schemas]_vars

\* A class was generated for a schema whose allOf elements have required lists.
C21_Witness ==
  /\ out.op = "class" /\ out.class.generated
  /\ AllOfRequired(schemas[out.schema_name].allOf) # <<>>

(***************************************************************************)
(* C22: closures of different roots run as interleaved tasks.              *)
(***************************************************************************)
\* The walk of the state machine computes the function.
WalkComputesClosure ==
  /\ pc = "done" =>
       get_all_schema_dependencies(root, schemas)
         = [raised |-> FALSE, visited |-> visited]
  /\ pc = "RecursionError" => get_all_schema_dependencies(root, schemas).raised

\* The task that runs and the task that waits.
C22_Tasks == {Waiting(pc, root, visited, stack), out}

\* The outcome of a task is that of the closure of its root run on its own.
C22_AsSequential(task) ==
  /\ task.pc = "done" =>
       get_all_schema_dependencies(task.root, schemas)
         = [raised |-> FALSE, visited |-> task.visited]
  /\ task.pc = "RecursionError" =>
       get_all_schema_dependencies(task.root, schemas).raised

\* C22: under any interleaving of the steps of two closures of one document,
\* each with a visited set of its own, each closure returns the set it
\* returns when run on its own.
C22_ParallelAsSequential == \A task \in C22_Tasks : C22_AsSequential(task)

\* One task has returned the closure of its root while the other, walking
\* from another root, is inside a call and has visited a schema of that
\* closure.
C22_Witness ==
  /\ pc = "done" /\ out.pc = "walk" /\ Len(out.stack) > 1
  /\ root # out.root
  /\ visited \cap out.visited # {}

\* A step of a task writes neither to the document nor to the state of the
\* task that waits.
C22_StepWritesOwnState ==
  [][/\ schemas' = schemas
     /\ out' # out => /\ out' = Waiting(pc, root, visited, stack)
                      /\ <<pc, root, stack>>' = <<out.pc, out.root, out.stack>>]_vars

(***************************************************************************)
(* C23: the class name of a schema name.                                   *)
(***************************************************************************)
\* name[i..j] is a token: a longest run of letters and digits.
C23_IsToken(name, i, j) ==
  /\ i <= j /\ \A k \in i..j : IsAlnum(Chr(name, k))
  /\ (i = 1 \/ ~IsAlnum(Chr(name, i - 1)))
  /\ (j = Len(name) \/ ~IsAlnum(Chr(name, j + 1)))

\* The tokens that begin at position i or later, in order.
RECURSIVE C23_TokensFrom(_, _)
C23_TokensFrom(name, i) ==
  IF i > Len(name) THEN <<>>
  ELSE IF \E j \in i..Len(name) : C23_IsToken(name, i, j)
  THEN LET j == CHOOSE j \in i..Len(name) : C23_IsToken(name, i, j)
       IN <<SubSeq(name, i, j)>> \o C23_TokensFrom(name, j + 1)
  ELSE C23_TokensFrom(name, i + 1)

\* Title case: the first character upper-cased, the others lower-cased.
C23_TitleCase(token) ==
  UpperChr(Chr(token, 1)) \o LowerStr(SubSeq(token, 2, Len(token)))

RECURSIVE C23_TitleCased(_)
C23_TitleCased(tokens) ==
  IF tokens = <<>> THEN ""
  ELSE C23_TitleCase(Head(tokens)) \o C23_TitleCased(Tail(tokens))

C23_Separates(c) == c \in {"_", "-", " "}

\* Splitting on runs of whitespace, '_' and '-' alone: position i begins a
\* token that ends at j.
C23_IsClaimedToken(name, i, j) ==
  /\ i <= j /\ \A k \in i..j : ~C23_Separates(Chr(name, k))
  /\ (i = 1 \/ C23_Separates(Chr(name, i - 1)))
  /\ (j = Len(name) \/ C23_Separates(Chr(name, j + 1)))

RECURSIVE C23_ClaimedTokensFrom(_, _)
C23_ClaimedTokensFrom(name, i) ==
  IF i > Len(name) THEN <<>>
  ELSE IF \E j \in i..Len(name) : C23_IsClaimedToken(name, i, j)
  THEN LET j == CHOOSE j \in i..Len(name) : C23_IsClaimedToken(name, i, j)
       IN <<SubSeq(name, i, j)>> \o C23_ClaimedTokensFrom(name, j + 1)
  ELSE C23_ClaimedTokensFrom(name, i + 1)

C23_Converted(name, tokens) ==
  IF IsPascalCase(name) THEN name
  ELSE IF IsCamelCase(name)
  THEN UpperChr(Chr(name, 1)) \o SubSeq(name, 2, Len(name))
  ELSE C23_TitleCased(tokens)

C23_Named == out.op \in {"class_name", "class_name_of_file"}

\* C23 as stated: a PascalCase name is kept, a camelCase name has its first
\* character upper-cased, any other name is split on runs of whitespace, '_'
\* and '-' and its tokens are title-cased and concatenated.
C23_ClassNameAsStated ==
  C23_Named =>
    out.result = C23_Converted(out.name, C23_ClaimedTokensFrom(out.name, 1))

\* The name the conversion is applied to: generators/ removes a final '.json'.
C23_Stem ==
  IF /\ out.op = "class_name_of_file" /\ Len(out.name) >= 5
     /\ SubSeq(out.name, Len(out.name) - 4, Len(out.name)) = ".json"
  THEN SubSeq(out.name, 1, Len(out.name) - 5)
  ELSE out.name

\* C23, amended: a PascalCase name is kept, a camelCase name has its first
\* character upper-cased, any other name is split at every run of characters
\* that are neither letters nor digits and its tokens are title-cased and
\* concatenated; generators/ removes a final '.json' from the name first.
C23_ClassName ==
  C23_Named => out.result = C23_Converted(C23_Stem, C23_TokensFrom(C23_Stem, 1))

\* A class name made of two tokens, and one of a camelCase name with an
\* embedded capital, were computed.
C23_Witness ==
  /\ C23_Named
  /\ \/ ~IsPascalCase(C23_Stem) /\ ~IsCamelCase(C23_Stem)
        /\ Len(C23_TokensFrom(C23_Stem, 1)) = 2
     \/ IsCamelCase(C23_Stem) /\ \E i \in 2..Len(C23_Stem) : IsUpper(Chr(C23_Stem, i))

(***************************************************************************)
(* C24: the identifier of a field name.                                    *)
(***************************************************************************)
C24_Tokens == C23_TokensFrom(out.name, 1)

\* The field name of a name that is not camelCase: the first token
\* lower-cased, then the later tokens title-cased.
C24_Identifier ==
  IF C24_Tokens = <<>> THEN ""
  ELSE LowerStr(Head(C24_Tokens)) \o C23_TitleCased(Tail(C24_Tokens))

\* C24: a camelCase field name is kept, embedded capitals included; any
\* other name is split into tokens, the first lower-cased and the later ones
\* title-cased, and the result starts with a lower-case letter.
C24_FieldName ==
  out.op = "field_name" =>
    IF IsCamelCase(out.name) THEN out.result = out.name
    ELSE /\ out.result = C24_Identifier
         /\ (\E i \in 1..Len(out.name) : IsLower(Chr(out.name, i)) \/ IsUpper(Chr(out.name, i)))
              => IsLower(Chr(out.result, 1))

\* What holds of a name that does not begin with a separator.
C24_FieldNameNoLeadingSeparator ==
  (out.op = "field_name" /\ (out.name = "" \/ IsAlnum(Chr(out.name, 1)))) =>
    IF IsCamelCase(out.name) THEN out.result = out.name
    ELSE out.result = C24_Identifier

(***************************************************************************)
(* C25: example payloads of documents with reference cycles.               *)
(***************************************************************************)
\* The property-level references from property_name of schema_name come back
\* to a property on the chain.
RECURSIVE PointerChainCycles(_, _, _)
PointerChainCycles(doc, ref, onChain) ==
  IF ~FollowsPointer(ref, doc) THEN FALSE
  ELSE IF <<ref[Len(ref) - 2], ref[Len(ref)]>> \in onChain THEN TRUE
  ELSE LET property_schema == PointedProperty(ref, doc)
       IN /\ Has(property_schema, "$ref")
          /\ PointerChainCycles(doc, property_schema.ref,
                                onChain \cup {<<ref[Len(ref) - 2], ref[Len(ref)]>>})

HasPointerCycle(doc) ==
  \E schema_name \in DOMAIN doc, property_name \in {"owner", "tag", "name"} :
    PointerChainCycles(doc, PropRef(schema_name, property_name).ref, {})

\* C25: the example payload of every schema of every document is computed:
\* no reference, schema-level or property-level, is followed without end.
C25_ExamplesTerminate == out.op = "example" => ~out.example.raised

\* Without a cycle of property-level references the example is computed, a
\* schema-level reference to a name already seen giving the marker.
RecursionErrorOnlyOnPointerCycle ==
  (out.op = "example" /\ out.example.raised) => HasPointerCycle(schemas)

\* The marker of a circular schema-level reference is part of an example.
C25_MarkerGiven ==
  /\ out.op = "example" /\ out.example.kind = "dict"
  /\ \E i \in 1..Len(out.example.entries) :
       LET e == out.example.entries[i].v
       IN /\ e.kind = "list" /\ e.elements[1].kind = "dict"
          /\ e.elements[1].entries[1].v.elements[1]
               = ExampleValue("# circular reference to Pet")

(***************************************************************************)
(* C26: the classes written for an endpoint and their bases.               *)
(***************************************************************************)
Processed == out.op = "endpoint" /\ ~out.result.raised

\* The classes written for the schemas of the closure.
C26_Classes ==
  {out.result.written[i] :
     i \in {j \in 1..Len(out.result.written) :
              out.result.written[j].kind = "class"}}

\* The class named `from` reaches the class named `to` by its bases.
RECURSIVE C26_Extends(_, _, _)
C26_Extends(from, to, seen) ==
  \E c \in C26_Classes :
    /\ c.class_name = from /\ c.class_name \notin seen
    /\ c.base_class_name # ""
    /\ \/ c.base_class_name = to
       \/ C26_Extends(c.base_class_name, to, seen \cup {from})

\* C26: no class written has itself as its base class, and none reaches
\* itself by following the bases.
C26_InheritanceAcyclic ==
  Processed => \A c \in C26_Classes : ~C26_Extends(c.class_name, c.class_name, {})

\* The bases taken from allOf alone never lead back: such a document raises
\* RecursionError before a class is written.
C26_AllOfInheritanceAcyclic ==
  Processed =>
    \A c \in C26_Classes :
      c.base_class_name # to_java_class_name(get_base_class(c.schema_name, schemas))
        \/ c.base_class_name # c.class_name

(***************************************************************************)
(* C27: the bases of the classes written for a root.                       *)
(***************************************************************************)
C27_Written == {out.result.written[i] : i \in 1..Len(out.result.written)}

\* The class has a base, and a class of that name is written for the root.
C27_BaseWritten(c) ==
  c.base_class_name # "" => \E b \in C27_Written : b.class_name = c.base_class_name

\* C27: every class written for a root has its base class written for that
\* root too, be the base a schema of the document or the base type
\* synthesized for a oneOf property.
C27_BasesWritten == Processed => \A c \in C27_Written : C27_BaseWritten(c)

\* The base a class takes from the first element of its allOf is written
\* whenever that element names a schema for which a class is generated.
C27_AllOfBasesWritten ==
  Processed =>
    \A c \in C26_Classes :
      LET base_class == get_base_class(c.schema_name, schemas)
      IN (base_class \in DOMAIN schemas /\ ~SkippedAsArray(schemas[base_class]))
           => C27_BaseWritten(c)

(***************************************************************************)
(* C28: the schemas named by the field types of the classes of a root.     *)
(***************************************************************************)
\* The schemas of the document whose class the type of a field refers to, at
\* any nesting of lists.  The inline class and the generic parameter named
\* after the field are no references to a schema.
C28_Referenced(field) ==
  IF C20_Element(field.type) \in {to_java_class_name(field.k),
                                  "T" \o to_java_class_name(field.k)}
  THEN {}
  ELSE {n \in DOMAIN schemas : to_java_class_name(n) = C20_Element(field.type)}

\* C28: every schema of the document that the type of a field of a class
\* written for a root refers to is in the closure of the root.
C28_FieldTypesInClosure ==
  Processed =>
    \A c \in C27_Written : \A i \in 1..Len(c.fields) :
      C28_Referenced(c.fields[i]) \subseteq out.result.deps

\* What holds of the documents whose properties refer to schemas directly,
\* as elements of an array, in allOf, in oneOf or in an inline object.
C28_DirectFieldTypesInClosure ==
  schemas \in Documents \cup PolyDocuments => C28_FieldTypesInClosure

(***************************************************************************)
(* C29: the closure of a schema of a closure.                              *)
(***************************************************************************)
\* The closure of a request body holds the closure of each of its schemas.
C29_ClassClosureTransitive ==
  Processed =>
    \A B \in out.result.deps :
      \/ get_all_schema_dependencies(B, schemas).raised
      \/ get_all_schema_dependencies(B, schemas).visited \subseteq out.result.deps

\* The dependencies of an example hold the dependencies of each of them.
C29_ExampleClosureTransitive ==
  out.op = "dependencies" =>
    \A B \in out.deps : get_schema_dependencies(B, schemas) \subseteq out.deps

\* C29: for every root A and every B in closure(A), closure(B) is a subset of
\* closure(A), for the closure of the class generator and for that of the
\* example generator.
C29_ClosureTransitive ==
  C29_ClassClosureTransitive /\ C29_ExampleClosureTransitive

\* A closure of three schemas one of which, not the root, has a closure of
\* two.
C29_Witness ==
  /\ Processed /\ Cardinality(out.result.deps) = 3
  /\ \E B \in out.result.deps \ {out.request_schema} :
       /\ ~get_all_schema_dependencies(B, schemas).raised
       /\ Cardinality(get_all_schema_dependencies(B, schemas).visited) = 2

\* The same for the dependencies of an example.
C29_ExampleWitness ==
  /\ out.op = "dependencies" /\ Cardinality(out.deps) = 3
  /\ \E B \in out.deps \ {out.schema_name} :
       Cardinality(get_schema_dependencies(B, schemas)) = 2

(***************************************************************************)
(* C30: the class names of the schemas and of the synthesized bases of a   *)
(* closure.                                                                *)
(***************************************************************************)
\* The files written for the schemas of the closure and for the bases
\* synthesized for their oneOf properties, by position.
C30_Files ==
  {i \in 1..Len(out.result.written) :
     out.result.written[i].kind \in {"class", "base"}}

\* No two schemas of the closure have the same class name.
C30_SchemaNamesDiffer ==
  \A a, b \in out.result.deps :
    to_java_class_name(a) = to_java_class_name(b) => a = b

\* No file is written twice for the schemas and the synthesized bases.
C30_WrittenOnce ==
  \A i, j \in C30_Files :
    out.result.written[i].class_name = out.result.written[j].class_name => i = j

\* A class is written for every schema of the closure that has one.
C30_NoneSuppressed ==
  \A schema_name \in out.result.deps :
    generate_java_class_from_schema(schema_name, schemas).generated
      => \E i \in C30_Files :
           /\ out.result.written[i].kind = "class"
           /\ out.result.written[i].schema_name = schema_name

\* C30: within the closure of a root no two schemas, and no schema and base
\* type synthesized for a oneOf property, have the same class name: no file
\* is written twice and a class is written for every schema of the closure
\* that has one.
C30_ClassNamesInjective ==
  Processed => C30_SchemaNamesDiffer /\ C30_WrittenOnce /\ C30_NoneSuppressed

\* The three parts, one by one.
C30_SchemaNamesInjective == Processed => C30_SchemaNamesDiffer
C30_NoClassReplaced == Processed => C30_WrittenOnce
C30_NoClassSuppressed == Processed => C30_NoneSuppressed

=============================================================================
